---- MODULE Spec2Model ----
(***************************************************************************)
(* appsettings-to-compose-environments: the flattening converter, the      *)
(* options validator and the renderers (src/src/core/converter.ts), the    *)
(* JSON validator and inspector (src/src/core/parser.ts) and the           *)
(* conversion service (src/src/core/conversion-service.ts), as state       *)
(* machines over one call each.                                            *)
(*                                                                         *)
(* Strings are sequences of one-character strings (JavaScript code units): *)
(* "a.b" is <<"a", ".", "b">>.  JSON values are tagged records.            *)
(***************************************************************************)
EXTENDS Integers, Sequences, FiniteSets, TLC

VARIABLES pc, jsonInput, partial, options, environmentVariables, warnings,
          key, sanitized,
          inputValue, quoteValues, escaped,
          steps, rawInput, validation, outputFormat, formatOptions, serviceResult,
          heap, calls

\* the argument and the result of one call of an escaping function
formatterVars == <<inputValue, quoteValues, escaped>>

\* the objects that outlive a call of the service, and the calls made so far
callVars == <<heap, calls>>

\* the steps reached, the input and the result of one call of the conversion
\* service
serviceVars == <<steps, rawInput, validation, outputFormat, formatOptions, serviceResult,
                 callVars>>

vars == <<pc, jsonInput, partial, options, environmentVariables, warnings,
          key, sanitized, formatterVars, serviceVars>>

(***************************************************************************)
(* Bounds of the model.                                                    *)
(***************************************************************************)
\* nodes (values) below the root object in a generated document
MaxNodes == 2
\* length of the keys given to sanitizeKey on its own
MaxKeyLen == 3
\* length of the prefixes given to validateConversionOptions on its own
MaxPrefixLen == 2

(***************************************************************************)
(* Characters and strings.                                                 *)
(***************************************************************************)
LowerLetters ==
    <<"a","b","c","d","e","f","g","h","i","j","k","l","m",
      "n","o","p","q","r","s","t","u","v","w","x","y","z">>

UpperLetters ==
    <<"A","B","C","D","E","F","G","H","I","J","K","L","M",
      "N","O","P","Q","R","S","T","U","V","W","X","Y","Z">>

DigitChars == <<"0","1","2","3","4","5","6","7","8","9">>

Range(s) == {s[i] : i \in DOMAIN s}

LowerSet == Range(LowerLetters)
UpperSet == Range(UpperLetters)
DigitSet == Range(DigitChars)

\* [a-zA-Z_]
IsIdentStart(c) == c \in LowerSet \cup UpperSet \cup {"_"}

\* [a-zA-Z0-9_]
IsIdentChar(c) == IsIdentStart(c) \/ c \in DigitSet

IndexIn(s, c) == CHOOSE i \in DOMAIN s : s[i] = c

RECURSIVE Concat(_)
Concat(ss) == IF ss = <<>> THEN <<>> ELSE Head(ss) \o Concat(Tail(ss))

\* String.prototype.toUpperCase / toLowerCase on the characters of the model
toUpperCase(s) ==
    [i \in DOMAIN s |->
        IF s[i] \in LowerSet THEN UpperLetters[IndexIn(LowerLetters, s[i])] ELSE s[i]]

toLowerCase(s) ==
    [i \in DOMAIN s |->
        IF s[i] \in UpperSet THEN LowerLetters[IndexIn(UpperLetters, s[i])] ELSE s[i]]

\* s.replace(new RegExp(escapeRegex(pat), 'g'), rep): every occurrence of the
\* literal, non-empty pat, found left to right without overlap
RECURSIVE ReplaceAll(_, _, _)
ReplaceAll(s, pat, rep) ==
    IF Len(s) < Len(pat) \/ pat = <<>> THEN s
    ELSE IF SubSeq(s, 1, Len(pat)) = pat
         THEN rep \o ReplaceAll(SubSeq(s, Len(pat) + 1, Len(s)), pat, rep)
         ELSE <<Head(s)>> \o ReplaceAll(Tail(s), pat, rep)

endsWith(s, c) == s # <<>> /\ s[Len(s)] = c

\* the decimal digits of a natural number
RECURSIVE NatToString(_)
NatToString(n) ==
    IF n < 10 THEN <<DigitChars[n + 1]>>
    ELSE NatToString(n \div 10) \o <<DigitChars[(n % 10) + 1]>>

\* Number.prototype.toString for the integers of the model
NumberToString(n) == IF n < 0 THEN <<"-">> \o NatToString(-n) ELSE NatToString(n)

\* the number a string of decimal digits denotes
RECURSIVE ParseNat(_)
ParseNat(s) ==
    IF s = <<>> THEN 0
    ELSE 10 * ParseNat(SubSeq(s, 1, Len(s) - 1)) + (IndexIn(DigitChars, s[Len(s)]) - 1)

(***************************************************************************)
(* JSON values (types.ts JsonValue).  An object is the sequence of its     *)
(* members in own-property order.                                          *)
(***************************************************************************)
JNull == [type |-> "null"]
JBool(b) == [type |-> "boolean", b |-> b]
JNum(n) == [type |-> "number", n |-> n]
JStr(s) == [type |-> "string", s |-> s]
JObj(members) == [type |-> "object", members |-> members]
JArr(items) == [type |-> "array", items |-> items]
Member(k, v) == [key |-> k, value |-> v]

\* the typeof operator
TypeOf(v) == IF v.type \in {"null", "object", "array"} THEN "object" ELSE v.type

\* an array index in the sense of ECMAScript property ordering: a canonical
\* numeric string below 2^32 - 1.  Keys of up to nine digits are decided here;
\* the ten-digit keys, some of which are array indices, are left out.
IsArrayIndex(k) ==
    /\ k # <<>>
    /\ \A i \in DOMAIN k : k[i] \in DigitSet
    /\ (k[1] = "0" => Len(k) = 1)
    /\ Len(k) < 10

\* members with a later duplicate of their key dropped into the first
\* position: the last value of a repeated key wins, at the first place
RECURSIVE DefineProperties(_, _)
DefineProperties(defined, members) ==
    IF members = <<>> THEN defined
    ELSE LET m == Head(members)
             hit == {i \in DOMAIN defined : defined[i].key = m.key}
         IN DefineProperties(
                IF hit = {} THEN Append(defined, m)
                ELSE [i \in DOMAIN defined |-> IF i \in hit THEN m ELSE defined[i]],
                Tail(members))

RECURSIVE InsertByIndex(_, _)
InsertByIndex(sorted, m) ==
    IF sorted = <<>> THEN <<m>>
    ELSE IF ParseNat(m.key) < ParseNat(Head(sorted).key)
         THEN <<m>> \o sorted
         ELSE <<Head(sorted)>> \o InsertByIndex(Tail(sorted), m)

RECURSIVE SortByIndex(_)
SortByIndex(members) ==
    IF members = <<>> THEN <<>>
    ELSE InsertByIndex(SortByIndex(Tail(members)), Head(members))

\* OrdinaryOwnPropertyKeys: array-index keys ascending, then the other string
\* keys in the order they were created
OwnPropertyOrder(members) ==
    SortByIndex(SelectSeq(members, LAMBDA m : IsArrayIndex(m.key)))
        \o SelectSeq(members, LAMBDA m : ~IsArrayIndex(m.key))

\* JSON.parse of a document text, given as the tree of its members in the
\* order the text lists them
RECURSIVE JSONParse(_)
JSONParse(text) ==
    IF text.type = "object"
    THEN JObj(OwnPropertyOrder(DefineProperties(<<>>,
            [i \in DOMAIN text.members |->
                Member(text.members[i].key, JSONParse(text.members[i].value))])))
    ELSE IF text.type = "array"
    THEN JArr([i \in DOMAIN text.items |-> JSONParse(text.items[i])])
    ELSE text

\* Object.entries(obj)
ObjectEntries(obj) == obj.members


\* array.join(sep)
RECURSIVE Join(_, _)
Join(ss, sep) ==
    IF ss = <<>> THEN <<>>
    ELSE IF Len(ss) = 1 THEN ss[1]
    ELSE ss[1] \o sep \o Join(Tail(ss), sep)

\* a JSON string literal, as JSON.stringify writes it
QuoteJson(s) ==
    <<"\"">> \o Concat([i \in DOMAIN s |->
                    IF s[i] \in {"\"", "\\"} THEN <<"\\", s[i]>> ELSE <<s[i]>>])
             \o <<"\"">>

RECURSIVE JSONStringify(_)
JSONStringify(v) ==
    CASE v.type = "null" -> <<"n","u","l","l">>
      [] v.type = "boolean" ->
            IF v.b THEN <<"t","r","u","e">> ELSE <<"f","a","l","s","e">>
      [] v.type = "number" -> NumberToString(v.n)
      [] v.type = "string" -> QuoteJson(v.s)
      [] v.type = "array" ->
            <<"[">> \o Join([i \in DOMAIN v.items |-> JSONStringify(v.items[i])], <<",">>)
                    \o <<"]">>
      [] v.type = "object" ->
            <<"{">> \o Join([i \in DOMAIN v.members |->
                                QuoteJson(v.members[i].key) \o <<":">>
                                    \o JSONStringify(v.members[i].value)], <<",">>)
                    \o <<"}">>

\* String(item) for a primitive or null item
StringOf(v) ==
    CASE v.type = "null" -> <<"n","u","l","l">>
      [] v.type = "boolean" ->
            IF v.b THEN <<"t","r","u","e">> ELSE <<"f","a","l","s","e">>
      [] v.type = "number" -> NumberToString(v.n)
      [] v.type = "string" -> v.s

(***************************************************************************)
(* converter.ts                                                            *)
(***************************************************************************)
\* one entry of a warnings list: the fixed text and the name it is about
Warning(text, about) == [text |-> text, about |-> about]

\* the accumulators result and warnings that the traversal appends to
Acc(result, warns) == [result |-> result, warnings |-> warns]
PushResult(acc, envVar) == [acc EXCEPT !.result = Append(@, envVar)]
PushWarning(acc, w) == [acc EXCEPT !.warnings = Append(@, w)]

\* sanitizeKey with the dots replaced by one underscore each
sanitizeKey_SingleUnderscore(k, warns) ==
    LET dotted == \E i \in DOMAIN k : k[i] = "."
        s1 == [i \in DOMAIN k |-> IF k[i] = "." THEN "_" ELSE k[i]]
        w1 == IF dotted
              THEN Append(warns, Warning("Replaced dots in key with double underscores", k))
              ELSE warns
        s2 == [i \in DOMAIN s1 |-> IF IsIdentChar(s1[i]) THEN s1[i] ELSE "_"]
        w2 == IF s1 # s2
              THEN Append(w1, Warning("Replaced special characters in key with underscores", k))
              ELSE w1
        bad == s2 = <<>> \/ ~IsIdentStart(s2[1])
        s3 == IF bad THEN <<"_">> \o s2 ELSE s2
        w3 == IF bad
              THEN Append(w2, Warning("Prefixed key with underscore to ensure valid identifier", k))
              ELSE w2
    IN [key |-> s3, warnings |-> w3]

sanitizeKey(k, warns) ==
    LET dotted == \E i \in DOMAIN k : k[i] = "."
        s1 == IF dotted
              THEN Concat([i \in DOMAIN k |-> IF k[i] = "." THEN <<"_","_">> ELSE <<k[i]>>])
              ELSE k
        w1 == IF dotted
              THEN Append(warns, Warning("Replaced dots in key with double underscores", k))
              ELSE warns
        s2 == [i \in DOMAIN s1 |-> IF IsIdentChar(s1[i]) THEN s1[i] ELSE "_"]
        w2 == IF s1 # s2
              THEN Append(w1, Warning("Replaced special characters in key with underscores", k))
              ELSE w1
        bad == s2 = <<>> \/ ~IsIdentStart(s2[1])
        s3 == IF bad THEN <<"_">> \o s2 ELSE s2
        w3 == IF bad
              THEN Append(w2, Warning("Prefixed key with underscore to ensure valid identifier", k))
              ELSE w2
    IN [key |-> s3, warnings |-> w3]

transformKeyName(k, opts) ==
    CASE opts.namingConvention = "uppercase" -> toUpperCase(k)
      [] opts.namingConvention = "lowercase" -> toLowerCase(k)
      [] OTHER -> k

\* convertValueToString with a falsy test in the place of value === null
convertValueToString_Falsy(value) ==
    CASE value.type = "null" -> <<>>
      [] value.type = "boolean" -> IF value.b THEN toLowerCase(StringOf(value)) ELSE <<>>
      [] value.type = "number" -> IF value.n = 0 THEN <<>> ELSE NumberToString(value.n)
      [] value.type = "string" -> value.s
      [] OTHER -> JSONStringify(value)

convertValueToString(value) ==
    CASE value.type = "null" -> <<>>
      [] value.type = "boolean" -> toLowerCase(StringOf(value))
      [] value.type = "number" -> NumberToString(value.n)
      [] value.type = "string" -> value.s
      [] OTHER -> JSONStringify(value)

\* createEnvironmentVariable with the naming convention applied after the
\* prefix is put in front
createEnvironmentVariable_TransformsPrefix(k, value, originalPath, originalType, isArrayElement, opts, arrayIndex) ==
    LET finalKey == transformKeyName(
                        IF opts.prefix # <<>> THEN opts.prefix \o k ELSE k, opts)
        envVar == [key |-> finalKey,
                   value |-> convertValueToString(value),
                   originalPath |-> originalPath,
                   originalType |-> originalType,
                   isArrayElement |-> isArrayElement]
    IN IF arrayIndex = <<>> THEN envVar
       ELSE [f \in DOMAIN envVar \cup {"arrayIndex"} |->
                IF f = "arrayIndex" THEN arrayIndex[1] ELSE envVar[f]]

\* createEnvironmentVariable keeping the type of the value only when
\* includeTypeHints is set
createEnvironmentVariable_TypeHints(k, value, originalPath, originalType, isArrayElement, opts, arrayIndex) ==
    LET transformedKey == transformKeyName(k, opts)
        finalKey == IF opts.prefix # <<>> THEN opts.prefix \o transformedKey
                    ELSE transformedKey
        envVar == [key |-> finalKey,
                   value |-> convertValueToString(value),
                   originalPath |-> originalPath,
                   originalType |-> IF opts.includeTypeHints THEN originalType ELSE "string",
                   isArrayElement |-> isArrayElement]
    IN IF arrayIndex = <<>> THEN envVar
       ELSE [f \in DOMAIN envVar \cup {"arrayIndex"} |->
                IF f = "arrayIndex" THEN arrayIndex[1] ELSE envVar[f]]

\* arrayIndex is <<>> when the argument is omitted and <<i>> when it is given
createEnvironmentVariable(k, value, originalPath, originalType, isArrayElement, opts, arrayIndex) ==
    LET transformedKey == transformKeyName(k, opts)
        finalKey == IF opts.prefix # <<>> THEN opts.prefix \o transformedKey
                    ELSE transformedKey
        envVar == [key |-> finalKey,
                   value |-> convertValueToString(value),
                   originalPath |-> originalPath,
                   originalType |-> originalType,
                   isArrayElement |-> isArrayElement]
    IN IF arrayIndex = <<>> THEN envVar
       ELSE [f \in DOMAIN envVar \cup {"arrayIndex"} |->
                IF f = "arrayIndex" THEN arrayIndex[1] ELSE envVar[f]]

\* prefix.replace(new RegExp(escapeRegex(options.keySeparator), 'g'), '.')
PathOf(prefix, opts) == ReplaceAll(prefix, opts.keySeparator, <<".">>)

handleNullValue(prefix, acc, opts) ==
    IF opts.nullHandling = "omit" THEN acc
    ELSE LET value == IF opts.nullHandling = "null" THEN <<"n","u","l","l">> ELSE <<>>
         IN PushResult(acc,
                createEnvironmentVariable(prefix, JStr(value), PathOf(prefix, opts),
                                          "null", FALSE, opts, <<>>))

\* the map callback of the collapsed form, over the items from index i on
RECURSIVE CollapseItems(_, _, _, _)
CollapseItems(arr, i, prefix, acc) ==
    IF i > Len(arr) THEN [strings |-> <<>>, acc |-> acc]
    ELSE LET complex == TypeOf(arr[i]) = "object" /\ arr[i].type # "null"
             acc1 == IF complex
                     THEN PushWarning(acc,
                            Warning("Complex object in array - converted to [object Object]",
                                    prefix))
                     ELSE acc
             str == IF complex
                    THEN <<"[","o","b","j","e","c","t"," ","O","b","j","e","c","t","]">>
                    ELSE StringOf(arr[i])
             rest == CollapseItems(arr, i + 1, prefix, acc1)
         IN [strings |-> <<str>> \o rest.strings, acc |-> rest.acc]

RECURSIVE flattenObject(_, _, _, _)
RECURSIVE handleArray(_, _, _, _)
RECURSIVE handleObject(_, _, _, _)
RECURSIVE ForEachItem(_, _, _, _, _)
RECURSIVE ForEachEntry(_, _, _, _, _)

\* arr.forEach((item, index) => ...) of handleArray, from position i on
\* (index = i - 1)
ForEachItem(arr, i, prefix, acc, opts) ==
    IF i > Len(arr) THEN acc
    ELSE LET item == arr[i]
             indexedPrefix == prefix \o opts.keySeparator \o NatToString(i - 1)
             originalPath == PathOf(prefix, opts) \o <<"[">> \o NatToString(i - 1) \o <<"]">>
             acc1 == IF TypeOf(item) = "object" /\ item.type # "null"
                     THEN flattenObject(item, indexedPrefix, acc, opts)
                     ELSE PushResult(acc,
                            createEnvironmentVariable(indexedPrefix, item, originalPath,
                                                      TypeOf(item), TRUE, opts, <<i - 1>>))
         IN ForEachItem(arr, i + 1, prefix, acc1, opts)

\* handleArray without the return that ends the collapsed form
handleArray_FallsThrough(arr, prefix, acc, opts) ==
    IF Len(arr) = 0
    THEN PushWarning(acc, Warning("Empty array found at path: ", prefix))
    ELSE LET mapped == CollapseItems(arr, 1, prefix, acc)
             stringValue == Join(mapped.strings, <<",">>)
             acc1 == IF ~opts.includeArrayIndices
                     THEN PushResult(mapped.acc,
                            createEnvironmentVariable(prefix, JStr(stringValue),
                                PathOf(prefix, opts), "array", FALSE, opts, <<>>))
                     ELSE acc
         IN ForEachItem(arr, 1, prefix, acc1, opts)

\* handleArray with the test for the empty array after the collapsed form
handleArray_LateEmptyCheck(arr, prefix, acc, opts) ==
    IF ~opts.includeArrayIndices
    THEN LET mapped == CollapseItems(arr, 1, prefix, acc)
             stringValue == Join(mapped.strings, <<",">>)
         IN PushResult(mapped.acc,
                createEnvironmentVariable(prefix, JStr(stringValue), PathOf(prefix, opts),
                                          "array", FALSE, opts, <<>>))
    ELSE IF Len(arr) = 0
    THEN PushWarning(acc, Warning("Empty array found at path: ", prefix))
    ELSE ForEachItem(arr, 1, prefix, acc, opts)

handleArray(arr, prefix, acc, opts) ==
    IF Len(arr) = 0
    THEN PushWarning(acc, Warning("Empty array found at path: ", prefix))
    ELSE IF ~opts.includeArrayIndices
    THEN LET mapped == CollapseItems(arr, 1, prefix, acc)
             stringValue == Join(mapped.strings, <<",">>)
         IN PushResult(mapped.acc,
                createEnvironmentVariable(prefix, JStr(stringValue), PathOf(prefix, opts),
                                          "array", FALSE, opts, <<>>))
    ELSE ForEachItem(arr, 1, prefix, acc, opts)

\* Object.entries(obj).forEach(([key, value]) => ...) of handleObject, from
\* entry i on
ForEachEntry(entries, i, prefix, acc, opts) ==
    IF i > Len(entries) THEN acc
    ELSE LET clean == sanitizeKey(entries[i].key, acc.warnings)
             newPrefix == IF prefix # <<>>
                          THEN prefix \o opts.keySeparator \o clean.key
                          ELSE clean.key
             acc1 == flattenObject(entries[i].value, newPrefix,
                                   [acc EXCEPT !.warnings = clean.warnings], opts)
         IN ForEachEntry(entries, i + 1, prefix, acc1, opts)

\* handleObject giving a record to an object without members
handleObject_EmitsEmpty(obj, prefix, acc, opts) ==
    IF obj.members = <<>>
    THEN PushResult(acc,
            createEnvironmentVariable(prefix, obj, PathOf(prefix, opts), "object",
                                      FALSE, opts, <<>>))
    ELSE ForEachEntry(ObjectEntries(obj), 1, prefix, acc, opts)

handleObject(obj, prefix, acc, opts) ==
    ForEachEntry(ObjectEntries(obj), 1, prefix, acc, opts)

flattenObject(obj, prefix, acc, opts) ==
    IF obj.type = "null" THEN handleNullValue(prefix, acc, opts)
    ELSE IF TypeOf(obj) = "object"
    THEN IF obj.type = "array"
         THEN handleArray(obj.items, prefix, acc, opts)
         ELSE handleObject(obj, prefix, acc, opts)
    ELSE PushResult(acc,
            createEnvironmentVariable(prefix, obj, PathOf(prefix, opts), TypeOf(obj),
                                      FALSE, opts, <<>>))

convertToEnvironmentVariables(data, opts) ==
    LET acc == flattenObject(data, <<>>, Acc(<<>>, <<>>), opts)
    IN [success |-> TRUE,
        environmentVariables |-> acc.result,
        formattedOutput |-> <<>>,
        warnings |-> acc.warnings]

\* the defaults of validateConversionOptions (the same values as
\* DEFAULT_CONVERSION_OPTIONS of types.ts)
OptionDefaults ==
    [prefix |-> <<>>,
     namingConvention |-> "preserve",
     includeTypeHints |-> FALSE,
     keySeparator |-> <<"_","_">>,
     nullHandling |-> "empty",
     includeArrayIndices |-> TRUE]

\* { ...defaults, ...options }: a partial option set is a function on the
\* fields it supplies
Spread(defaults, given) ==
    [f \in DOMAIN defaults \cup DOMAIN given |->
        IF f \in DOMAIN given THEN given[f] ELSE defaults[f]]

\* DEFAULT_FORMAT_OPTIONS of types.ts
DEFAULT_FORMAT_OPTIONS ==
    [dockerCompose |-> [useArrayFormat |-> TRUE, indentLevel |-> 2],
     envFile |-> [includeComments |-> TRUE, quoteValues |-> TRUE],
     plainText |-> [separator |-> <<"=">>, includeExport |-> FALSE]]

\* the options objects a caller keeps and passes to several calls: a
\* conversionOptions object that makes validateConversionOptions assign the
\* separator and the prefix, and a formatOptions object
CallerConversionOptions ==
    [prefix |-> <<"1", "-">>, keySeparator |-> <<>>, nullHandling |-> "null"]

CallerFormatOptions ==
    [envFile |-> [includeComments |-> FALSE, quoteValues |-> FALSE],
     plainText |-> [separator |-> <<":">>, includeExport |-> TRUE]]

\* the objects that are shared between calls or belong to the caller
KeptObjects ==
    {"DEFAULT_CONVERSION_OPTIONS", "DEFAULT_FORMAT_OPTIONS",
     "input.conversionOptions", "input.formatOptions"}

\* The objects by name, before any call; validated is the object that
\* validateConversionOptions creates, <<>> while there is none.
InitialObjects ==
    [n \in KeptObjects \cup {"validated"} |->
        CASE n = "DEFAULT_CONVERSION_OPTIONS" -> OptionDefaults
          [] n = "DEFAULT_FORMAT_OPTIONS" -> DEFAULT_FORMAT_OPTIONS
          [] n = "input.conversionOptions" -> CallerConversionOptions
          [] n = "input.formatOptions" -> CallerFormatOptions
          [] OTHER -> <<>>]

\* validateConversionOptions appending '_' to every non-empty prefix
validateConversionOptions_AlwaysAppends(given) ==
    LET v0 == Spread(OptionDefaults, given)
        v1 == IF v0.keySeparator = <<>>
              THEN [v0 EXCEPT !.keySeparator = <<"_","_">>]
              ELSE v0
        p1 == [i \in DOMAIN v1.prefix |->
                  IF IsIdentChar(v1.prefix[i]) THEN v1.prefix[i] ELSE "_"]
        p2 == IF Len(p1) > 0 THEN Append(p1, "_") ELSE p1
        p3 == IF p2 # <<>> /\ ~IsIdentStart(p2[1]) THEN <<"_">> \o p2 ELSE p2
    IN IF v1.prefix # <<>> THEN [v1 EXCEPT !.prefix = p3] ELSE v1

\* validateConversionOptions without the test of the first character
validateConversionOptions_NoStartCheck(given) ==
    LET v0 == Spread(OptionDefaults, given)
        v1 == IF v0.keySeparator = <<>>
              THEN [v0 EXCEPT !.keySeparator = <<"_","_">>]
              ELSE v0
        p1 == [i \in DOMAIN v1.prefix |->
                  IF IsIdentChar(v1.prefix[i]) THEN v1.prefix[i] ELSE "_"]
        p2 == IF ~endsWith(p1, "_") /\ Len(p1) > 0 THEN Append(p1, "_") ELSE p1
    IN IF v1.prefix # <<>> THEN [v1 EXCEPT !.prefix = p2] ELSE v1

validateConversionOptions(given) ==
    LET v0 == Spread(OptionDefaults, given)
        v1 == IF v0.keySeparator = <<>>
              THEN [v0 EXCEPT !.keySeparator = <<"_","_">>]
              ELSE v0
        p1 == [i \in DOMAIN v1.prefix |->
                  IF IsIdentChar(v1.prefix[i]) THEN v1.prefix[i] ELSE "_"]
        p2 == IF ~endsWith(p1, "_") /\ Len(p1) > 0 THEN Append(p1, "_") ELSE p1
        p3 == IF p2 # <<>> /\ ~IsIdentStart(p2[1]) THEN <<"_">> \o p2 ELSE p2
    IN IF v1.prefix # <<>> THEN [v1 EXCEPT !.prefix = p3] ELSE v1



(***************************************************************************)
(* Inputs.                                                                 *)
(***************************************************************************)
\* sequences over the set chars of length at most n
RECURSIVE StringsUpTo(_, _)
StringsUpTo(chars, n) ==
    IF n = 0 THEN {<<>>}
    ELSE LET shorter == StringsUpTo(chars, n - 1)
         IN shorter \cup {Append(s, c) : s \in shorter, c \in chars}

\* object keys of the generated documents: a plain key, a key that is an
\* array index for the property order, a key with a dot and both letter cases
DocKeys == {<<"b">>, <<"1">>, <<"A", ".", "c">>}

Leaves == {JNull, JBool(TRUE), JBool(FALSE), JNum(-12), JStr(<<"T", "x">>)}

\* sequences of n different keys
RECURSIVE KeySeqs(_)
KeySeqs(n) ==
    IF n = 0 THEN {<<>>}
    ELSE {ks \in {Append(js, k) : js \in KeySeqs(n - 1), k \in DocKeys} :
            \A i, j \in DOMAIN ks : ks[i] = ks[j] => i = j}

RECURSIVE ValuesOfSize(_)
RECURSIVE ValueSeqsOfSize(_)

\* the sequences of values that have n nodes in all
ValueSeqsOfSize(n) ==
    IF n = 0 THEN {<<>>}
    ELSE UNION {{<<v>> \o rest : v \in ValuesOfSize(s), rest \in ValueSeqsOfSize(n - s)} :
                    s \in 1..n}

ObjectsOver(valueSeqs) ==
    UNION {{JObj([i \in DOMAIN vs |-> Member(ks[i], vs[i])]) : ks \in KeySeqs(Len(vs))} :
                vs \in valueSeqs}

\* the JSON values of exactly n nodes: a leaf, or an object or array whose
\* children have n - 1 nodes in all
ValuesOfSize(n) ==
    IF n = 1 THEN Leaves \cup {JObj(<<>>), JArr(<<>>)}
    ELSE ObjectsOver(ValueSeqsOfSize(n - 1)) \cup {JArr(vs) : vs \in ValueSeqsOfSize(n - 1)}

\* every root object with at most MaxNodes nodes below it
GeneratedDocuments == UNION {ObjectsOver(ValueSeqsOfSize(n)) : n \in 0..MaxNodes}

\* larger documents: arrays of several items and kinds, containers nested in
\* arrays, members listed with array-index keys out of numeric order, a deep
\* path
FixtureDocuments ==
    {JObj(<<Member(<<"b">>, JArr(<<JStr(<<"T", "x">>), JNum(-12), JBool(TRUE), JNull>>))>>),
     JObj(<<Member(<<"b">>, JArr(<<JObj(<<Member(<<"a", "-">>, JNull)>>), JArr(<<>>),
                                   JArr(<<JNum(0)>>), JBool(FALSE)>>))>>),
     JObj(<<Member(<<"b">>, JObj(<<Member(<<"2">>, JBool(TRUE)),
                                   Member(<<"1">>, JStr(<<>>)),
                                   Member(<<"B">>, JArr(<<JNull, JArr(<<>>)>>))>>)),
            Member(<<"1">>, JArr(<<JNull, JNum(7)>>)),
            Member(<<>>, JNum(105)),
            Member(<<"c">>, JArr(<<>>))>>),
     JObj(<<Member(<<"b">>, JObj(<<Member(<<"b">>, JObj(<<Member(<<"B">>,
                JArr(<<JObj(<<Member(<<"c">>, JNum(-12)),
                              Member(<<"0">>, JArr(<<>>))>>)>>))>>))>>))>>)}

Documents == GeneratedDocuments \cup FixtureDocuments

\* a partial option set is a function on the fields it supplies: c gives for
\* each field <<>> (not supplied) or <<value>>
MkPartial(c) == [f \in {g \in DOMAIN c : c[g] # <<>>} |-> c[f][1]]

\* the option sets given to a conversion
ConversionPartials ==
    {[prefix |-> p, namingConvention |-> n, keySeparator |-> s,
      nullHandling |-> h, includeArrayIndices |-> a] :
        p \in {<<>>, <<"a", "P">>},
        n \in {"preserve", "uppercase", "lowercase"},
        s \in {<<"_", "_">>, <<":">>},
        h \in {"empty", "omit", "null"},
        a \in BOOLEAN}

PrefixChars == {"a", "7", "-", "_"}

\* the partial option sets given to validateConversionOptions on its own
PartialOptions ==
    {MkPartial([prefix |-> p, namingConvention |-> n, keySeparator |-> s,
                nullHandling |-> h, includeArrayIndices |-> a, includeTypeHints |-> t]) :
        p \in {<<>>} \cup {<<x>> : x \in StringsUpTo(PrefixChars, MaxPrefixLen)},
        n \in {<<>>, <<"preserve">>, <<"uppercase">>, <<"lowercase">>},
        s \in {<<>>, <<<<>>>>, <<<<"_", "_">>>>, <<<<":">>>>},
        h \in {<<>>, <<"null">>},
        a \in {<<>>, <<FALSE>>},
        t \in {<<>>, <<TRUE>>}}

KeyChars == {"a", "Z", "7", ".", "-", "_"}

\* the keys given to sanitizeKey on its own
Keys == StringsUpTo(KeyChars, MaxKeyLen)

(***************************************************************************)
(* The conversion of one document: steps 3 and 4 of                        *)
(* convertAppsettingsToEnvironmentVariables.                               *)
(***************************************************************************)
\* no escaping function has been called
FormatterIdle ==
    /\ inputValue = <<>>
    /\ quoteValues = FALSE
    /\ escaped = <<>>

\* the conversion service has not been called
ServiceIdle ==
    /\ heap = InitialObjects
    /\ calls = 0
    /\ steps = <<>>
    /\ rawInput = <<>>
    /\ validation = <<>>
    /\ outputFormat = "docker-compose"
    /\ formatOptions = <<>>
    /\ serviceResult = <<>>

Idle ==
    /\ FormatterIdle
    /\ ServiceIdle
    /\ partial = <<>>
    /\ options = OptionDefaults
    /\ environmentVariables = <<>>
    /\ key = <<>>
    /\ sanitized = <<>>

Init ==
    /\ pc = "start"
    /\ jsonInput \in Documents
    /\ warnings = <<>>
    /\ Idle

ConvertDocument ==
    /\ pc = "start"
    /\ \E given \in ConversionPartials :
        LET validated == validateConversionOptions(given)
            conversionResult ==
                convertToEnvironmentVariables(JSONParse(jsonInput), validated)
        IN /\ partial' = given
           /\ options' = validated
           /\ environmentVariables' = conversionResult.environmentVariables
           /\ warnings' = conversionResult.warnings
    /\ pc' = "converted"
    /\ UNCHANGED <<jsonInput, key, sanitized, formatterVars, serviceVars>>

Next == ConvertDocument

Spec == Init /\ [][Next]_vars

(***************************************************************************)
(* validateConversionOptions on its own, applied and applied again to its  *)
(* own result.                                                             *)
(***************************************************************************)
InitOptions ==
    /\ pc = "start"
    /\ partial \in PartialOptions
    /\ options = OptionDefaults
    /\ jsonInput = JObj(<<>>)
    /\ environmentVariables = <<>>
    /\ warnings = <<>>
    /\ key = <<>>
    /\ sanitized = <<>>
    /\ FormatterIdle
    /\ ServiceIdle

ValidateOptions ==
    /\ pc = "start"
    /\ options' = validateConversionOptions(partial)
    /\ pc' = "validated"
    /\ UNCHANGED <<jsonInput, partial, environmentVariables, warnings, key, sanitized,
                   formatterVars, serviceVars>>

RevalidateOptions ==
    /\ pc = "validated"
    /\ options' = validateConversionOptions(options)
    /\ pc' = "revalidated"
    /\ UNCHANGED <<jsonInput, partial, environmentVariables, warnings, key, sanitized,
                   formatterVars, serviceVars>>

NextOptions == ValidateOptions \/ RevalidateOptions

SpecOptions == InitOptions /\ [][NextOptions]_vars

(***************************************************************************)
(* sanitizeKey on its own, appending to a warnings list that may already   *)
(* hold a warning.                                                         *)
(***************************************************************************)
EarlierWarning == Warning("Empty array found at path: ", <<"b">>)

InitSanitize ==
    /\ pc = "start"
    /\ key \in Keys
    /\ warnings \in {<<>>, <<EarlierWarning>>}
    /\ sanitized = <<>>
    /\ jsonInput = JObj(<<>>)
    /\ partial = <<>>
    /\ options = OptionDefaults
    /\ environmentVariables = <<>>
    /\ FormatterIdle
    /\ ServiceIdle

SanitizeKey ==
    /\ pc = "start"
    /\ LET clean == sanitizeKey(key, warnings)
       IN /\ sanitized' = clean.key
          /\ warnings' = clean.warnings
    /\ pc' = "sanitized"
    /\ UNCHANGED <<jsonInput, partial, options, environmentVariables, key,
                   formatterVars, serviceVars>>

NextSanitize == SanitizeKey

SpecSanitize == InitSanitize /\ [][NextSanitize]_vars


(***************************************************************************)
(* Properties of the converter.                                            *)
(***************************************************************************)
\* ^[A-Za-z_][A-Za-z0-9_]*$
ValidIdentifier(k) ==
    /\ k # <<>>
    /\ IsIdentStart(k[1])
    /\ \A i \in DOMAIN k : IsIdentChar(k[i])

Converted == pc = "converted"

\* the document the converter is given
Data == JSONParse(jsonInput)

\* The nodes the traversal visits, in the order it visits them, each with the
\* path of sanitized keys and array indices that leads to it: the members of
\* every object visited, and the items of every array visited when arrays are
\* flattened by index.
RECURSIVE Reached(_, _, _, _)
Reached(v, path, inArray, opts) ==
    <<[path |-> path, value |-> v, inArray |-> inArray]>> \o
    (IF v.type = "object"
     THEN Concat([i \in DOMAIN v.members |->
                    Reached(v.members[i].value,
                            Append(path, sanitizeKey(v.members[i].key, <<>>).key),
                            FALSE, opts)])
     ELSE IF v.type = "array" /\ opts.includeArrayIndices
     THEN Concat([i \in DOMAIN v.items |->
                    Reached(v.items[i], Append(path, NatToString(i - 1)), TRUE, opts)])
     ELSE <<>>)

ReachedNodes == Reached(Data, <<>>, FALSE, options)

\* C1: every record returned by convertToEnvironmentVariables, for every
\* document and every option set validateConversionOptions returns, has a key
\* matching ^[A-Za-z_][A-Za-z0-9_]*$.
C1_KeyValidity ==
    Converted =>
        \A i \in DOMAIN environmentVariables : ValidIdentifier(environmentVariables[i].key)

\* C2: the records appear in depth-first document order: they are the records
\* of the traversal that takes the members of every object in the order the
\* text lists them and the items of every array by ascending index.
C2_DocumentOrder ==
    Converted =>
        environmentVariables =
            convertToEnvironmentVariables(jsonInput, options).environmentVariables

\* a string that no document holds, put in the place of each null
NullMark == <<"#", "n", "u", "l", "l", "#">>

RECURSIVE MarkNulls(_)
MarkNulls(v) ==
    CASE v.type = "null" -> JStr(NullMark)
      [] v.type = "array" -> JArr([i \in DOMAIN v.items |-> MarkNulls(v.items[i])])
      [] v.type = "object" ->
            JObj([i \in DOMAIN v.members |->
                    Member(v.members[i].key, MarkNulls(v.members[i].value))])
      [] OTHER -> v

\* the keys and values of the records a record list must hold when the
\* records valued NullMark stand for the nulls of the document
NullOutcome(marked, mode) ==
    LET kept == IF mode = "omit"
                THEN SelectSeq(marked, LAMBDA r : r.value # NullMark)
                ELSE marked
    IN [i \in DOMAIN kept |->
          [key |-> kept[i].key,
           value |-> IF kept[i].value # NullMark THEN kept[i].value
                     ELSE IF mode = "null" THEN <<"n","u","l","l">> ELSE <<>>]]

KeysAndValues(records) ==
    [i \in DOMAIN records |-> [key |-> records[i].key, value |-> records[i].value]]

\* C3: every null of the document, as an object member or as an item of an
\* array flattened by index, gives what nullHandling documents: one record
\* valued "" for 'empty', one record valued "null" for 'null', no record for
\* 'omit'; the other records are as they would be with a string in its place.
C3_NullHandling ==
    (Converted /\ options.includeArrayIndices) =>
        KeysAndValues(environmentVariables) =
            NullOutcome(
                convertToEnvironmentVariables(MarkNulls(Data), options).environmentVariables,
                options.nullHandling)


\* the naming convention applied to a whole key
ApplyNaming(k, convention) ==
    IF convention = "uppercase" THEN toUpperCase(k)
    ELSE IF convention = "lowercase" THEN toLowerCase(k)
    ELSE k

\* the separator-joined path of a visited node
JoinedPath(path) == Join(path, options.keySeparator)

\* the key of the record of a visited node
FinalKey(path) == options.prefix \o ApplyNaming(JoinedPath(path), options.namingConvention)

IsComposite(v) == v.type \in {"object", "array"}
IsPrimitive(v) == v.type \in {"string", "number", "boolean"}

\* the string form of one item of a collapsed array
ItemText(v) ==
    CASE v.type = "string" -> v.s
      [] v.type = "number" -> NumberToString(v.n)
      [] v.type = "boolean" -> IF v.b THEN <<"t","r","u","e">> ELSE <<"f","a","l","s","e">>
      [] v.type = "null" -> <<"n","u","l","l">>
      [] OTHER -> <<"[","o","b","j","e","c","t"," ","O","b","j","e","c","t","]">>

RECURSIVE SumSeq(_)
SumSeq(ns) == IF ns = <<>> THEN 0 ELSE Head(ns) + SumSeq(Tail(ns))

SumOver(ss, F(_)) == SumSeq([i \in DOMAIN ss |-> F(ss[i])])

CountIn(ss, P(_)) == Len(SelectSeq(ss, P))

IsNonEmptyArrayNode(n) == n.value.type = "array" /\ n.value.items # <<>>
IsEmptyArrayNode(n) == n.value.type = "array" /\ n.value.items = <<>>
IsPrimitiveNode(n) == IsPrimitive(n.value)

ReachedArrays == SelectSeq(ReachedNodes, IsNonEmptyArrayNode)

ArrayRecords == SelectSeq(environmentVariables, LAMBDA r : r.originalType = "array")

ComplexWarnings ==
    SelectSeq(warnings,
        LAMBDA w : w.text = "Complex object in array - converted to [object Object]")

\* C4: with includeArrayIndices=false every non-empty array the traversal
\* reaches yields exactly one record, keyed by the array's own path, of
\* originalType 'array', valued the comma-joined string forms of its items,
\* with one warning for each nested object or array; nothing inside an array
\* yields a record.
C4_CollapsedArrays ==
    (Converted /\ ~options.includeArrayIndices) =>
        LET nodes == ReachedNodes
            arrays == SelectSeq(nodes, IsNonEmptyArrayNode)
            records == ArrayRecords
            complex == ComplexWarnings
        IN /\ Len(records) = Len(arrays)
           /\ \A i \in DOMAIN arrays :
                /\ records[i].key = FinalKey(arrays[i].path)
                /\ records[i].value =
                    Join([j \in DOMAIN arrays[i].value.items |->
                            ItemText(arrays[i].value.items[j])], <<",">>)
           /\ Len(complex) =
                SumOver(arrays, LAMBDA n : CountIn(n.value.items, IsComposite))
           /\ \A i \in DOMAIN complex :
                \E j \in DOMAIN arrays : complex[i].about = JoinedPath(arrays[j].path)
           /\ \A i \in DOMAIN environmentVariables :
                ~environmentVariables[i].isArrayElement
           /\ Len(environmentVariables) =
                Len(arrays)
                + CountIn(nodes, LAMBDA n : IsPrimitive(n.value))
                + (IF options.nullHandling = "omit" THEN 0
                   ELSE CountIn(nodes, LAMBDA n : n.value.type = "null"))

\* a collapsed array of several items, one of them an object or an array,
\* has been converted
C4_Witness ==
    /\ Converted
    /\ ~options.includeArrayIndices
    /\ LET arrays == ReachedArrays
       IN \E i \in DOMAIN arrays :
            /\ Len(arrays[i].value.items) >= 3
            /\ \E j \in DOMAIN arrays[i].value.items :
                IsComposite(arrays[i].value.items[j])
            /\ \E j \in DOMAIN arrays[i].value.items :
                ~IsComposite(arrays[i].value.items[j])
            /\ \E j \in DOMAIN ArrayRecords : Len(ArrayRecords[j].value) > 30

RECURSIVE CountEmptyArrays(_)
CountEmptyArrays(v) ==
    CASE v.type = "array" ->
            IF v.items = <<>> THEN 1 ELSE SumOver(v.items, CountEmptyArrays)
      [] v.type = "object" ->
            SumOver(v.members, LAMBDA m : CountEmptyArrays(m.value))
      [] OTHER -> 0

\* the document with an empty object in the place of every empty array
RECURSIVE EmptyArraysToObjects(_)
EmptyArraysToObjects(v) ==
    CASE v.type = "array" ->
            IF v.items = <<>> THEN JObj(<<>>)
            ELSE JArr([i \in DOMAIN v.items |-> EmptyArraysToObjects(v.items[i])])
      [] v.type = "object" ->
            JObj([i \in DOMAIN v.members |->
                    Member(v.members[i].key, EmptyArraysToObjects(v.members[i].value))])
      [] OTHER -> v

EmptyArrayWarnings ==
    SelectSeq(warnings, LAMBDA w : w.text = "Empty array found at path: ")

ReachedEmptyArrays == SelectSeq(ReachedNodes, IsEmptyArrayNode)

NoRecordForEmptyArrays ==
    environmentVariables =
        convertToEnvironmentVariables(EmptyArraysToObjects(Data), options).environmentVariables

\* C5 as claimed: every empty array anywhere in the document, under either
\* setting of includeArrayIndices, gives no record and exactly one 'Empty
\* array found at path' warning.
C5_EveryEmptyArray ==
    Converted =>
        /\ Len(EmptyArrayWarnings) = CountEmptyArrays(Data)
        /\ NoRecordForEmptyArrays

\* C5: every empty array the traversal reaches (every empty array that is not
\* inside an array collapsed under includeArrayIndices=false) gives no record
\* and exactly one 'Empty array found at path' warning naming its
\* separator-joined path, in the order of the traversal.
C5_ReachedEmptyArrays ==
    Converted =>
        LET empties == ReachedEmptyArrays
        IN /\ EmptyArrayWarnings =
                [i \in DOMAIN empties |->
                    Warning("Empty array found at path: ", JoinedPath(empties[i].path))]
           /\ NoRecordForEmptyArrays

\* empty arrays have been converted as a member and as an item of an array
C5_Witness ==
    /\ Converted
    /\ LET empties == ReachedEmptyArrays
       IN \E i, j \in DOMAIN empties : empties[i].inArray /\ ~empties[j].inArray
    /\ Len(EmptyArrayWarnings) >= 2


\* what the three steps of sanitizeKey make of a key, character by character:
\* a '.' becomes '__', any other character outside [A-Za-z0-9_] becomes '_',
\* and '_' goes in front of an empty result or a leading digit
SanitizedForm(k) ==
    LET replaced == Concat([i \in DOMAIN k |->
                        IF k[i] = "." THEN <<"_", "_">>
                        ELSE IF IsIdentChar(k[i]) THEN <<k[i]>>
                        ELSE <<"_">>])
    IN IF k = <<>> \/ k[1] \in DigitSet THEN <<"_">> \o replaced ELSE replaced

\* one warning for each step that changed the key, in the order of the steps
SanitizeWarnings(k) ==
    (IF \E i \in DOMAIN k : k[i] = "."
     THEN <<Warning("Replaced dots in key with double underscores", k)>> ELSE <<>>)
    \o (IF \E i \in DOMAIN k : k[i] # "." /\ ~IsIdentChar(k[i])
        THEN <<Warning("Replaced special characters in key with underscores", k)>>
        ELSE <<>>)
    \o (IF k = <<>> \/ k[1] \in DigitSet
        THEN <<Warning("Prefixed key with underscore to ensure valid identifier", k)>>
        ELSE <<>>)

\* C6: sanitizeKey returns the key with every '.' replaced by '__', every
\* other character outside [A-Za-z0-9_] replaced by '_', and '_' prepended
\* when the result does not start with a letter or underscore (the empty key
\* included); it appends one warning for each step that changed the key and
\* no other.
C6_SanitizeKey ==
    [][(pc = "start" /\ pc' = "sanitized") =>
            /\ sanitized' = SanitizedForm(key)
            /\ warnings' = warnings \o SanitizeWarnings(key)]_vars

\* a key that all three steps change has been sanitized, after an earlier
\* warning
C6_Witness ==
    /\ pc = "sanitized"
    /\ key = <<"7", ".", "-">>
    /\ sanitized = <<"_", "7", "_", "_", "_">>
    /\ Len(warnings) = 4

ReachedPrimitives == SelectSeq(ReachedNodes, IsPrimitiveNode)

PrimitiveRecords ==
    SelectSeq(environmentVariables,
              LAMBDA r : r.originalType \in {"string", "number", "boolean"})

\* C7: every record's key is options.prefix, verbatim, followed by the
\* separator-joined path of sanitized keys and array indices with the naming
\* convention applied to that whole path.
C7_FinalKey ==
    Converted =>
        LET nodes == ReachedNodes
            leaves == SelectSeq(nodes, IsPrimitiveNode)
            records == PrimitiveRecords
            keys == {FinalKey(nodes[j].path) : j \in {i \in DOMAIN nodes : nodes[i].path # <<>>}}
        IN /\ [i \in DOMAIN records |-> records[i].key] =
                [i \in DOMAIN leaves |-> FinalKey(leaves[i].path)]
           /\ \A i \in DOMAIN environmentVariables : environmentVariables[i].key \in keys

\* a record of an array item below a key with lower-case letters has been
\* made with a prefix and the upper-case convention
C7_Witness ==
    /\ Converted
    /\ options.prefix = <<"a", "P", "_">>
    /\ options.namingConvention = "uppercase"
    /\ LET leaves == ReachedPrimitives
           records == PrimitiveRecords
       IN \E i \in DOMAIN leaves :
            /\ leaves[i].inArray
            /\ JoinedPath(leaves[i].path) # toUpperCase(JoinedPath(leaves[i].path))
            /\ records[i].key = <<"a", "P", "_">> \o toUpperCase(JoinedPath(leaves[i].path))

\* an optional '-' and then decimal digits
IsDecimal(s) ==
    LET digits == IF s # <<>> /\ s[1] = "-" THEN Tail(s) ELSE s
    IN digits # <<>> /\ \A i \in DOMAIN digits : digits[i] \in DigitSet

\* the number a decimal string denotes
ParseNumber(s) == IF s[1] = "-" THEN 0 - ParseNat(Tail(s)) ELSE ParseNat(s)

\* C8: the record of every string, number or boolean leaf (an object member
\* or an indexed array item) holds a value that gives the leaf back: a string
\* verbatim, a boolean as "true" or "false", a number as the decimal string
\* that parses to the same number.
C8_ScalarRoundTrip ==
    Converted =>
        LET leaves == ReachedPrimitives
            records == PrimitiveRecords
        IN /\ Len(records) = Len(leaves)
           /\ \A i \in DOMAIN leaves :
                LET leaf == leaves[i].value
                    r == records[i]
                IN /\ r.originalType = leaf.type
                   /\ leaf.type = "string" => r.value = leaf.s
                   /\ leaf.type = "boolean" =>
                        r.value = IF leaf.b THEN <<"t","r","u","e">>
                                  ELSE <<"f","a","l","s","e">>
                   /\ leaf.type = "number" =>
                        IsDecimal(r.value) /\ ParseNumber(r.value) = leaf.n

\* a string, a negative number and a boolean have been converted as items of
\* one array
C8_Witness ==
    /\ Converted
    /\ LET leaves == ReachedPrimitives
           records == PrimitiveRecords
       IN \E i, j, k \in DOMAIN leaves :
            /\ leaves[i].inArray /\ leaves[i].value.type = "string"
            /\ leaves[j].inArray /\ leaves[j].value.type = "number"
            /\ leaves[j].value.n < 0
            /\ records[j].value = <<"-", "1", "2">>
            /\ leaves[k].inArray /\ leaves[k].value.type = "boolean"

(***************************************************************************)
(* Properties of validateConversionOptions.                                *)
(***************************************************************************)
\* C9: validateConversionOptions is idempotent: applied to its own result it
\* returns that result, field by field.
C9_Idempotent == [][pc = "validated" => options' = options]_vars

\* a digits-first prefix with a special character and an empty keySeparator
\* have been validated twice
C9_Witness ==
    /\ pc = "revalidated"
    /\ "prefix" \in DOMAIN partial
    /\ partial.prefix = <<"7", "-">>
    /\ "keySeparator" \in DOMAIN partial
    /\ partial.keySeparator = <<>>
    /\ options.prefix = <<"_", "7", "_">>
    /\ options.keySeparator = <<"_", "_">>

PrefixGiven == pc = "validated" /\ "prefix" \in DOMAIN partial

\* C10 as claimed: a non-empty prefix comes back made of [A-Za-z0-9_] only,
\* starting with a letter or underscore and ending with a single trailing
\* '_'; an empty prefix comes back empty.
C10_SingleTrailingUnderscore ==
    PrefixGiven =>
        IF partial.prefix = <<>> THEN options.prefix = <<>>
        ELSE /\ ValidIdentifier(options.prefix)
             /\ endsWith(options.prefix, "_")
             /\ Len(options.prefix) >= 2 => options.prefix[Len(options.prefix) - 1] # "_"

\* C10: a non-empty prefix comes back made of [A-Za-z0-9_] only, starting
\* with a letter or underscore and ending with '_': its characters with each
\* one outside [A-Za-z0-9_] replaced by '_', one '_' appended when that does
\* not already end with '_' (so it may end with several), and '_' put in
\* front of a leading digit; an empty prefix comes back empty.
C10_TrailingUnderscore ==
    PrefixGiven =>
        IF partial.prefix = <<>> THEN options.prefix = <<>>
        ELSE LET replaced == [i \in DOMAIN partial.prefix |->
                                IF IsIdentChar(partial.prefix[i]) THEN partial.prefix[i]
                                ELSE "_"]
             IN /\ ValidIdentifier(options.prefix)
                /\ endsWith(options.prefix, "_")
                /\ options.prefix =
                    (IF replaced[1] \in DigitSet THEN <<"_">> ELSE <<>>)
                    \o replaced
                    \o (IF endsWith(replaced, "_") THEN <<>> ELSE <<"_">>)

\* a digits-first prefix without a trailing underscore has been validated
C10_Witness ==
    /\ PrefixGiven
    /\ partial.prefix = <<"7", "a">>
    /\ options.prefix = <<"_", "7", "a", "_">>

(***************************************************************************)
(* formatter.ts: the escaping functions of the three renderers.            *)
(***************************************************************************)
\* \s of a JavaScript regular expression, on the characters of the model
WhiteSpace == {" ", "\t", "\n", "\r", "\f"}

Contains(s, chars) == \E i \in DOMAIN s : s[i] \in chars

\* \d+ or [0-9]+
AllDigits(s) == s # <<>> /\ \A i \in DOMAIN s : s[i] \in DigitSet

\* ^\d+\.?\d*$
MatchesDecimal(s) ==
    \E n \in 1..Len(s) :
        /\ AllDigits(SubSeq(s, 1, n))
        /\ \/ n = Len(s)
           \/ /\ s[n + 1] = "."
              /\ \A i \in (n + 2)..Len(s) : s[i] \in DigitSet

\* ^[0-9]+e[0-9]+$ under the i flag
MatchesExponent(s) ==
    \E n \in 2..(Len(s) - 1) :
        /\ s[n] \in {"e", "E"}
        /\ AllDigits(SubSeq(s, 1, n - 1))
        /\ AllDigits(SubSeq(s, n + 1, Len(s)))

\* the words of the first regular expression of escapeYamlValue
YamlWords ==
    {<<"t","r","u","e">>, <<"f","a","l","s","e">>, <<"n","u","l","l">>,
     <<"y","e","s">>, <<"n","o">>, <<"o","n">>, <<"o","f","f">>}

\* the grave accent U+0060, which a TLA+ string cannot hold: one character
\* of the model, written by its name
Grave == "grave"

\* the character class of the third regular expression of escapeYamlValue:
\* : [ ] { } | > * & ! % @ and the grave accent
YamlIndicators == {":", "[", "]", "{", "}", "|", ">", "*", "&", "!", "%", "@", Grave}

escapeYamlValue(value) ==
    IF value = <<>> THEN <<"\"", "\"">>
    ELSE LET needsQuoting ==
                \/ toLowerCase(value) \in YamlWords
                \/ MatchesDecimal(value)
                \/ MatchesExponent(value)
                \/ value[1] \in {"+", "-"}
                \/ Contains(value, YamlIndicators)
                \/ value[1] \in WhiteSpace
                \/ value[Len(value)] \in WhiteSpace
                \/ Contains(value, {"#"})
                \/ Contains(value, {"\""})
                \/ Contains(value, {"'"})
         IN IF needsQuoting
            THEN <<"\"">> \o ReplaceAll(value, <<"\"">>, <<"\\", "\"">>) \o <<"\"">>
            ELSE value

\* the character class of hasSpecialChars: # " ' $ \ and the grave accent
EnvSpecialChars == {"#", "\"", "'", "$", "\\", Grave}

\* escapeEnvValue escaping the double quotes before the backslashes
escapeEnvValue_QuotesFirst(value, forceQuotes) ==
    IF value = <<>> THEN <<"\"", "\"">>
    ELSE LET hasSpaces == Contains(value, WhiteSpace)
             hasSpecialChars == Contains(value, EnvSpecialChars)
             needsQuoting == forceQuotes \/ hasSpaces \/ hasSpecialChars
             e1 == ReplaceAll(value, <<"\"">>, <<"\\", "\"">>)
             e2 == ReplaceAll(e1, <<"\\">>, <<"\\", "\\">>)
             e3 == ReplaceAll(e2, <<"\n">>, <<"\\", "n">>)
             e4 == ReplaceAll(e3, <<"\r">>, <<"\\", "r">>)
             e5 == ReplaceAll(e4, <<"\t">>, <<"\\", "t">>)
         IN IF needsQuoting THEN <<"\"">> \o e5 \o <<"\"">> ELSE value

escapeEnvValue(value, forceQuotes) ==
    IF value = <<>> THEN <<"\"", "\"">>
    ELSE LET hasSpaces == Contains(value, WhiteSpace)
             hasSpecialChars == Contains(value, EnvSpecialChars)
             needsQuoting == forceQuotes \/ hasSpaces \/ hasSpecialChars
             e1 == ReplaceAll(value, <<"\\">>, <<"\\", "\\">>)
             e2 == ReplaceAll(e1, <<"\"">>, <<"\\", "\"">>)
             e3 == ReplaceAll(e2, <<"\n">>, <<"\\", "n">>)
             e4 == ReplaceAll(e3, <<"\r">>, <<"\\", "r">>)
             e5 == ReplaceAll(e4, <<"\t">>, <<"\\", "t">>)
         IN IF needsQuoting THEN <<"\"">> \o e5 \o <<"\"">> ELSE value

\* [a-zA-Z0-9_./:-]
ShellSafeChars == LowerSet \cup UpperSet \cup DigitSet \cup {"_", ".", "/", ":", "-"}

\* escapeShellValue writing an internal single quote as \'
escapeShellValue_Backslash(value) ==
    IF value = <<>> THEN <<"'", "'">>
    ELSE IF \A i \in DOMAIN value : value[i] \in ShellSafeChars THEN value
    ELSE <<"'">> \o ReplaceAll(value, <<"'">>, <<"\\", "'">>) \o <<"'">>

escapeShellValue(value) ==
    IF value = <<>> THEN <<"'", "'">>
    ELSE IF \A i \in DOMAIN value : value[i] \in ShellSafeChars THEN value
    ELSE <<"'">> \o ReplaceAll(value, <<"'">>, <<"'", "\"", "'", "\"", "'">>) \o <<"'">>

(***************************************************************************)
(* One call of an escaping function on one record value.                   *)
(***************************************************************************)
\* length of the generated record values
MaxValueLen == 3

\* a letter, the exponent letter, a digit, the characters the three quoting
\* tests look for, a character none of them looks for
ValueChars == {"a", "e", "1", ".", "-", ":", "#", "\"", "'", " ", "\\", "\n", "$", "~"}

\* longer values: the words and number forms of YAML, letter case, escapes
FixtureValues ==
    {<<"t","r","u","e">>, <<"T","R","U","E">>, <<"F","a","l","s","e">>,
     <<"n","u","l","l">>, <<"Y","e","s">>, <<"n","o">>, <<"O","N">>, <<"o","f","f">>,
     <<"t","r","u","e","r">>, <<"1","2","3">>, <<"3",".","1","4">>, <<"1","e","1","0">>,
     <<"1","E","5">>, <<"1",".","5","e","3">>, <<"1","e","+","5">>, <<".","5">>,
     <<"0","x","1","F">>, <<"0","o","1","7">>, <<"+","1">>, <<"N","u","l","l">>,
     <<"1","2","a">>, <<"a","_","/","Z","9">>, <<"a","\t","b">>, <<"\t","a">>,
     <<"a","\r">>, <<"a","\f">>, <<"a",Grave,"b">>, <<"a","[","b","]">>, <<"{","a","}">>,
     <<"a","|","b">>, <<"a",">">>, <<"*">>, <<"&","a">>, <<"!","a">>, <<"5","%">>,
     <<"a","@","b">>, <<"C",":","\\","n","e","w">>, <<"a","\\","\"">>,
     <<"i","t","'","s"," ","'","a","'">>, <<"a","=","b",";","c">>}

Values == StringsUpTo(ValueChars, MaxValueLen) \cup FixtureValues

\* the converter is not part of the call
ConverterIdle ==
    /\ jsonInput = JObj(<<>>)
    /\ partial = <<>>
    /\ options = OptionDefaults
    /\ environmentVariables = <<>>
    /\ warnings = <<>>
    /\ key = <<>>
    /\ sanitized = <<>>

converterVars == <<jsonInput, partial, options, environmentVariables, warnings, key, sanitized>>

InitEscape ==
    /\ pc = "start"
    /\ inputValue \in Values
    /\ quoteValues = FALSE
    /\ escaped = <<>>
    /\ ConverterIdle
    /\ ServiceIdle

\* formatDockerCompose: const value = escapeYamlValue(envVar.value)
EscapeYaml ==
    /\ pc = "start"
    /\ escaped' = escapeYamlValue(inputValue)
    /\ pc' = "yaml"
    /\ UNCHANGED <<inputValue, quoteValues, converterVars, serviceVars>>

\* formatEnvFile: escapeEnvValue(envVar.value, options.quoteValues)
EscapeEnv ==
    /\ pc = "start"
    /\ \E q \in BOOLEAN :
        /\ quoteValues' = q
        /\ escaped' = escapeEnvValue(inputValue, q)
    /\ pc' = "env"
    /\ UNCHANGED <<inputValue, converterVars, serviceVars>>

\* formatPlainText: const value = escapeShellValue(envVar.value)
EscapeShell ==
    /\ pc = "start"
    /\ escaped' = escapeShellValue(inputValue)
    /\ pc' = "shell"
    /\ UNCHANGED <<inputValue, quoteValues, converterVars, serviceVars>>

NextEscape == EscapeYaml \/ EscapeEnv \/ EscapeShell

SpecEscape == InitEscape /\ [][NextEscape]_vars

(***************************************************************************)
(* Properties of the escaping functions.                                   *)
(***************************************************************************)
\* v wrapped in double quotes, each double quote of v written as \"
DoubleQuoted(v) ==
    <<"\"">> \o Concat([i \in DOMAIN v |-> IF v[i] = "\"" THEN <<"\\", "\"">> ELSE <<v[i]>>])
             \o <<"\"">>

Digits(s) == s # <<>> /\ \A i \in DOMAIN s : s[i] \in DigitSet

\* 42
IntegerForm(s) == Digits(s)

\* 3.14, 3.
FloatForm(s) ==
    \E n \in 2..Len(s) :
        /\ s[n] = "."
        /\ Digits(SubSeq(s, 1, n - 1))
        /\ n < Len(s) => Digits(SubSeq(s, n + 1, Len(s)))

\* an optional sign and digits
ExponentPart(s) == Digits(s) \/ (Len(s) > 1 /\ s[1] \in {"+", "-"} /\ Digits(Tail(s)))

\* 1e10, 1.5e3, 1e+5: an integer or decimal mantissa, e or E, an exponent
ScientificForm(s) ==
    \E n \in 2..(Len(s) - 1) :
        /\ s[n] \in {"e", "E"}
        /\ IntegerForm(SubSeq(s, 1, n - 1)) \/ FloatForm(SubSeq(s, 1, n - 1))
        /\ ExponentPart(SubSeq(s, n + 1, Len(s)))

AmbiguousWords == {"true", "false", "null", "yes", "no", "on", "off"}

\* the word a string of letters spells, for the words above
Spells(s, word) ==
    \/ word = "true" /\ s = <<"t","r","u","e">>
    \/ word = "false" /\ s = <<"f","a","l","s","e">>
    \/ word = "null" /\ s = <<"n","u","l","l">>
    \/ word = "yes" /\ s = <<"y","e","s">>
    \/ word = "no" /\ s = <<"n","o">>
    \/ word = "on" /\ s = <<"o","n">>
    \/ word = "off" /\ s = <<"o","f","f">>

IsAmbiguousWord(s) == \E w \in AmbiguousWords : Spells(toLowerCase(s), w)

\* the quoting conditions of the Compose renderer as the claim lists them
MustQuoteYaml(v) ==
    \/ v = <<>>
    \/ IsAmbiguousWord(v)
    \/ IntegerForm(v) \/ FloatForm(v) \/ ScientificForm(v)
    \/ v[1] \in {"+", "-"}
    \/ \E i \in DOMAIN v :
        v[i] \in {":", "[", "]", "{", "}", "|", ">", "*", "&", "!", "%", "@", Grave}
    \/ v[1] \in WhiteSpace \/ v[Len(v)] \in WhiteSpace
    \/ \E i \in DOMAIN v : v[i] \in {"#", "\"", "'"}

\* C11: the Compose renderer writes a value in double quotes, its double
\* quotes escaped, exactly when one of the listed conditions holds (empty, an
\* ambiguous word, an integer, float or scientific-notation form, a leading
\* sign, an indicator character, outer whitespace, # " or '), and writes every
\* other value unchanged.
C11_YamlQuoting ==
    pc = "yaml" =>
        escaped = IF MustQuoteYaml(inputValue) THEN DoubleQuoted(inputValue)
                  ELSE inputValue

HexDigits(s) ==
    /\ s # <<>>
    /\ \A i \in DOMAIN s : s[i] \in DigitSet \cup {"a","b","c","d","e","f","A","B","C","D","E","F"}

OctalDigits(s) == s # <<>> /\ \A i \in DOMAIN s : s[i] \in {"0","1","2","3","4","5","6","7"}

Unsigned(s) == IF s # <<>> /\ s[1] \in {"+", "-"} THEN Tail(s) ELSE s

\* .5 or 5 or 5. or 5.5
YamlMantissa(s) ==
    \/ Digits(s)
    \/ FloatForm(s)
    \/ Len(s) > 1 /\ s[1] = "." /\ Digits(Tail(s))

\* the plain scalars that the YAML core schema resolves to null, a boolean,
\* an integer or a float
YamlResolvesTyped(s) ==
    \/ s \in {<<"~">>, <<"n","u","l","l">>, <<"N","u","l","l">>, <<"N","U","L","L">>}
    \/ s \in {<<"t","r","u","e">>, <<"T","r","u","e">>, <<"T","R","U","E">>,
              <<"f","a","l","s","e">>, <<"F","a","l","s","e">>, <<"F","A","L","S","E">>}
    \/ Digits(Unsigned(s))
    \/ Len(s) > 2 /\ SubSeq(s, 1, 2) = <<"0", "x">> /\ HexDigits(SubSeq(s, 3, Len(s)))
    \/ Len(s) > 2 /\ SubSeq(s, 1, 2) = <<"0", "o">> /\ OctalDigits(SubSeq(s, 3, Len(s)))
    \/ YamlMantissa(Unsigned(s))
    \/ \E n \in 2..(Len(s) - 1) :
        /\ s[n] \in {"e", "E"}
        /\ YamlMantissa(Unsigned(SubSeq(s, 1, n - 1)))
        /\ ExponentPart(SubSeq(s, n + 1, Len(s)))
    \/ Unsigned(s) \in {<<".","i","n","f">>, <<".","I","n","f">>, <<".","I","N","F">>}
    \/ s \in {<<".","n","a","n">>, <<".","N","a","N">>, <<".","N","A","N">>}

\* C12: no value that the Compose renderer emits unquoted is a plain scalar
\* that a YAML parser reads as a boolean, a number or null.
C12_YamlSafety ==
    (pc = "yaml" /\ escaped = inputValue) => ~YamlResolvesTyped(inputValue)

\* the character an escape sequence of a YAML double-quoted scalar denotes;
\* <<>> for a sequence YAML does not define
YamlEscape(c) ==
    CASE c = "\"" -> <<"\"">>
      [] c = "\\" -> <<"\\">>
      [] c = "/" -> <<"/">>
      [] c = " " -> <<" ">>
      [] c = "n" -> <<"\n">>
      [] c = "r" -> <<"\r">>
      [] c = "t" -> <<"\t">>
      [] c = "f" -> <<"\f">>
      [] OTHER -> <<>>

\* the text between the quotes of a double-quoted scalar, read left to right:
\* a backslash starts an escape sequence, a bare double quote ends the scalar
\* too early, a line break is folded into a space
RECURSIVE ReadYamlBody(_)
ReadYamlBody(body) ==
    IF body = <<>> THEN [ok |-> TRUE, s |-> <<>>]
    ELSE IF body[1] = "\"" THEN [ok |-> FALSE, s |-> <<>>]
    ELSE IF body[1] = "\\"
         THEN IF Len(body) < 2 \/ YamlEscape(body[2]) = <<>>
              THEN [ok |-> FALSE, s |-> <<>>]
              ELSE LET rest == ReadYamlBody(SubSeq(body, 3, Len(body)))
                   IN [ok |-> rest.ok, s |-> YamlEscape(body[2]) \o rest.s]
    ELSE LET rest == ReadYamlBody(Tail(body))
         IN [ok |-> rest.ok,
             s |-> <<IF body[1] = "\n" THEN " " ELSE body[1]>> \o rest.s]

ReadYamlDoubleQuoted(text) ==
    IF Len(text) >= 2 /\ text[1] = "\"" /\ text[Len(text)] = "\""
    THEN ReadYamlBody(SubSeq(text, 2, Len(text) - 1))
    ELSE [ok |-> FALSE, s |-> <<>>]

\* C13: every value the Compose renderer quotes reads back, by the rules of
\* a YAML double-quoted scalar, as exactly that value.
C13_YamlRoundTrip ==
    (pc = "yaml" /\ escaped # inputValue) =>
        ReadYamlDoubleQuoted(escaped) = [ok |-> TRUE, s |-> inputValue]

\* v wrapped in double quotes with the five backslash escapes of the .env
\* renderer, each character of v written on its own
EnvQuoted(v) ==
    <<"\"">> \o Concat([i \in DOMAIN v |->
                    CASE v[i] = "\\" -> <<"\\", "\\">>
                      [] v[i] = "\"" -> <<"\\", "\"">>
                      [] v[i] = "\n" -> <<"\\", "n">>
                      [] v[i] = "\r" -> <<"\\", "r">>
                      [] v[i] = "\t" -> <<"\\", "t">>
                      [] OTHER -> <<v[i]>>])
             \o <<"\"">>

\* whitespace or one of # " ' $ \ and the grave accent
EnvMustQuote(v) ==
    \E i \in DOMAIN v : v[i] \in WhiteSpace \cup {"#", "\"", "'", "$", "\\", Grave}

\* C15 as stated: the .env renderer writes a value in double quotes, with
\* backslash, double quote, newline, carriage return and tab escaped, exactly
\* when quoteValues is set or the value contains whitespace or one of
\* # " ' $ \ and the grave accent; every other value is written verbatim.
C15_EnvQuoting ==
    pc = "env" =>
        escaped = IF quoteValues \/ EnvMustQuote(inputValue) THEN EnvQuoted(inputValue)
                  ELSE inputValue

\* C15, amended: as C15_EnvQuoting, and the empty value is written as the
\* two double quotes whatever quoteValues is.
C15_EnvQuotingOrEmpty ==
    pc = "env" =>
        escaped = IF inputValue = <<>> \/ quoteValues \/ EnvMustQuote(inputValue)
                  THEN EnvQuoted(inputValue)
                  ELSE inputValue

C15_Witness ==
    /\ pc = "env"
    /\ ~quoteValues
    /\ inputValue = <<"a", "\\", "\"">>
    /\ escaped = <<"\"", "a", "\\", "\\", "\\", "\"", "\"">>

\* v wrapped in single quotes, each single quote of v written as '"'"'
ShellQuoted(v) ==
    <<"'">> \o Concat([i \in DOMAIN v |->
                    IF v[i] = "'" THEN <<"'", "\"", "'", "\"", "'">> ELSE <<v[i]>>])
            \o <<"'">>

\* the characters that are not literal in an unquoted part of a shell word
ShellMeta ==
    WhiteSpace \cup {"|", "&", ";", "<", ">", "(", ")", "$", Grave, "*", "?", "[", "#",
                     "~", "=", "%", "!", "{", "}"}

\* with the character c in front of what the rest of the word reads as
ReadMore(c, rest) == [ok |-> rest.ok, s |-> <<c>> \o rest.s]

\* a POSIX shell word read left to right: unquoted parts, parts in single
\* quotes (every character literal), parts in double quotes (literal but for
\* $, the grave accent and the backslash)
RECURSIVE ReadShell(_, _)
ReadShell(word, mode) ==
    IF word = <<>> THEN [ok |-> mode = "bare", s |-> <<>>]
    ELSE LET c == word[1]
             rest == Tail(word)
         IN CASE mode = "single" ->
                    IF c = "'" THEN ReadShell(rest, "bare")
                    ELSE ReadMore(c, ReadShell(rest, "single"))
              [] mode = "double" ->
                    IF c = "\"" THEN ReadShell(rest, "bare")
                    ELSE IF c \in {"$", Grave, "\\"} THEN [ok |-> FALSE, s |-> <<>>]
                    ELSE ReadMore(c, ReadShell(rest, "double"))
              [] OTHER ->
                    IF c = "'" THEN ReadShell(rest, "single")
                    ELSE IF c = "\"" THEN ReadShell(rest, "double")
                    ELSE IF c = "\\"
                         THEN IF rest = <<>> \/ rest[1] = "\n"
                              THEN [ok |-> FALSE, s |-> <<>>]
                              ELSE ReadMore(rest[1], ReadShell(Tail(rest), "bare"))
                    ELSE IF c \in ShellMeta THEN [ok |-> FALSE, s |-> <<>>]
                    ELSE ReadMore(c, ReadShell(rest, "bare"))

ReadShellWord(word) == ReadShell(word, "bare")

ShellSafe(v) ==
    /\ v # <<>>
    /\ \A i \in DOMAIN v :
        v[i] \in LowerSet \cup UpperSet \cup DigitSet \cup {"_", ".", "/", ":", "-"}

\* C16: the plain-text renderer writes a value bare exactly when it is
\* non-empty and made of the characters A-Z a-z 0-9 _ . / : - only, writes
\* every other value in single quotes with each single quote as '"'"' (the
\* empty value as ''), and the text it writes reads back as a POSIX shell
\* word as exactly the value.
C16_ShellWord ==
    pc = "shell" =>
        /\ escaped = IF ShellSafe(inputValue) THEN inputValue ELSE ShellQuoted(inputValue)
        /\ ReadShellWord(escaped) = [ok |-> TRUE, s |-> inputValue]

C16_Witness ==
    /\ pc = "shell"
    /\ inputValue = <<"i", "t", "'", "s", " ", "'", "a", "'">>
    /\ Len(escaped) = Len(inputValue) + 14
    /\ ReadShellWord(escaped).ok

(***************************************************************************)
(* parser.ts: validateJson.                                                *)
(***************************************************************************)
\* the white space of the JSON grammar
JsonWhiteSpace == {" ", "\t", "\n", "\r"}

RECURSIVE SkipWhiteSpace(_, _)
SkipWhiteSpace(text, i) ==
    IF i <= Len(text) /\ text[i] \in JsonWhiteSpace THEN SkipWhiteSpace(text, i + 1) ELSE i

\* the results of the parsing steps: the value read and the index after it,
\* or the index of the character that cannot be part of a JSON text
\* (Len(text) + 1 when the text ends too early)
Parsed(v, next) == [ok |-> TRUE, value |-> v, next |-> next]
SyntaxErrorAt(i) == [ok |-> FALSE, at |-> i]

\* the literals true, false and null
ParseLiteral(text, i, word, v) ==
    LET k == CHOOSE k \in 0..Len(word) :
                /\ \A j \in 1..k : i + j - 1 <= Len(text) /\ text[i + j - 1] = word[j]
                /\ k < Len(word) => (i + k > Len(text) \/ text[i + k] # word[k + 1])
    IN IF k = Len(word) THEN Parsed(v, i + k) ELSE SyntaxErrorAt(i + k)

\* the character an escape sequence of a JSON string denotes; <<>> when the
\* sequence is not one of the grammar (\b and \u are not in the texts of the
\* model)
JsonEscape(c) ==
    CASE c = "\"" -> <<"\"">>
      [] c = "\\" -> <<"\\">>
      [] c = "/" -> <<"/">>
      [] c = "n" -> <<"\n">>
      [] c = "r" -> <<"\r">>
      [] c = "t" -> <<"\t">>
      [] c = "f" -> <<"\f">>
      [] OTHER -> <<>>

\* the characters of a string from index i, after its opening quote
RECURSIVE ParseStringBody(_, _, _)
ParseStringBody(text, i, acc) ==
    IF i > Len(text) THEN SyntaxErrorAt(i)
    ELSE IF text[i] = "\"" THEN Parsed(acc, i + 1)
    ELSE IF text[i] \in {"\n", "\r", "\t", "\f"} THEN SyntaxErrorAt(i)
    ELSE IF text[i] = "\\"
         THEN IF i + 1 > Len(text) \/ JsonEscape(text[i + 1]) = <<>>
              THEN SyntaxErrorAt(i + 1)
              ELSE ParseStringBody(text, i + 2, acc \o JsonEscape(text[i + 1]))
    ELSE ParseStringBody(text, i + 1, Append(acc, text[i]))

\* the index after the run of digits that starts at i
RECURSIVE SkipDigits(_, _)
SkipDigits(text, i) ==
    IF i <= Len(text) /\ text[i] \in DigitSet THEN SkipDigits(text, i + 1) ELSE i

\* a number: the numbers of the model are integers, the texts of the model
\* hold no fraction and no exponent
ParseNumberAt(text, i) ==
    LET first == IF text[i] = "-" THEN i + 1 ELSE i
        last == SkipDigits(text, first)
    IN IF last = first THEN SyntaxErrorAt(first)
       ELSE IF text[first] = "0" /\ last > first + 1 THEN SyntaxErrorAt(first + 1)
       ELSE Parsed(JNum((IF first = i THEN 1 ELSE -1)
                            * ParseNat(SubSeq(text, first, last - 1))), last)

RECURSIVE ParseValue(_, _)
RECURSIVE ParseMembers(_, _, _)
RECURSIVE ParseItems(_, _, _)

\* the members of an object from index i, where a member has to start
ParseMembers(text, i, acc) ==
    IF i > Len(text) \/ text[i] # "\"" THEN SyntaxErrorAt(i)
    ELSE LET name == ParseStringBody(text, i + 1, <<>>)
         IN IF ~name.ok THEN name
            ELSE LET colon == SkipWhiteSpace(text, name.next)
                 IN IF colon > Len(text) \/ text[colon] # ":" THEN SyntaxErrorAt(colon)
                    ELSE LET v == ParseValue(text, SkipWhiteSpace(text, colon + 1))
                         IN IF ~v.ok THEN v
                            ELSE LET after == SkipWhiteSpace(text, v.next)
                                     members == Append(acc, Member(name.value, v.value))
                                 IN IF after > Len(text) THEN SyntaxErrorAt(after)
                                    ELSE IF text[after] = ","
                                    THEN ParseMembers(text, SkipWhiteSpace(text, after + 1),
                                                      members)
                                    ELSE IF text[after] = "}"
                                    THEN Parsed(JObj(members), after + 1)
                                    ELSE SyntaxErrorAt(after)

\* the items of an array from index i, where an item has to start
ParseItems(text, i, acc) ==
    LET v == ParseValue(text, i)
    IN IF ~v.ok THEN v
       ELSE LET after == SkipWhiteSpace(text, v.next)
                items == Append(acc, v.value)
            IN IF after > Len(text) THEN SyntaxErrorAt(after)
               ELSE IF text[after] = ","
               THEN ParseItems(text, SkipWhiteSpace(text, after + 1), items)
               ELSE IF text[after] = "]" THEN Parsed(JArr(items), after + 1)
               ELSE SyntaxErrorAt(after)

\* the value that starts at index i
ParseValue(text, i) ==
    IF i > Len(text) THEN SyntaxErrorAt(i)
    ELSE CASE text[i] = "{" ->
                LET j == SkipWhiteSpace(text, i + 1)
                IN IF j <= Len(text) /\ text[j] = "}" THEN Parsed(JObj(<<>>), j + 1)
                   ELSE ParseMembers(text, j, <<>>)
           [] text[i] = "[" ->
                LET j == SkipWhiteSpace(text, i + 1)
                IN IF j <= Len(text) /\ text[j] = "]" THEN Parsed(JArr(<<>>), j + 1)
                   ELSE ParseItems(text, j, <<>>)
           [] text[i] = "\"" ->
                LET str == ParseStringBody(text, i + 1, <<>>)
                IN IF str.ok THEN Parsed(JStr(str.value), str.next) ELSE str
           [] text[i] = "-" \/ text[i] \in DigitSet -> ParseNumberAt(text, i)
           [] text[i] = "t" -> ParseLiteral(text, i, <<"t","r","u","e">>, JBool(TRUE))
           [] text[i] = "f" -> ParseLiteral(text, i, <<"f","a","l","s","e">>, JBool(FALSE))
           [] text[i] = "n" -> ParseLiteral(text, i, <<"n","u","l","l">>, JNull)
           [] OTHER -> SyntaxErrorAt(i)

\* the grammar of JSON.parse: one value with white space around it; the
\* value is the tree of the text, its members in the order of the text
ParseJsonText(text) ==
    LET v == ParseValue(text, SkipWhiteSpace(text, 1))
    IN IF ~v.ok THEN v
       ELSE LET after == SkipWhiteSpace(text, v.next)
            IN IF after > Len(text) THEN v ELSE SyntaxErrorAt(after)

\* String.prototype.trim: the white space of JavaScript, which is more than
\* the white space of JSON (form feed in the model)
RECURSIVE trimStart(_)
trimStart(s) == IF s # <<>> /\ s[1] \in WhiteSpace THEN trimStart(Tail(s)) ELSE s

RECURSIVE trimEnd(_)
trimEnd(s) ==
    IF s # <<>> /\ s[Len(s)] \in WhiteSpace THEN trimEnd(SubSeq(s, 1, Len(s) - 1)) ELSE s

trim(s) == trimEnd(trimStart(s))

\* s.split('\n').length - 1: the number of line feeds in s
CountLineFeeds(s) == Cardinality({i \in DOMAIN s : s[i] = "\n"})

\* the length of the last element of s.split('\n')
LastLineLength(s) ==
    LET feeds == {i \in DOMAIN s : s[i] = "\n"}
    IN IF feeds = {} THEN Len(s)
       ELSE Len(s) - (CHOOSE i \in feeds : \A j \in feeds : j <= i)

\* The message of the SyntaxError of JSON.parse depends on the engine.  A
\* message is its wording, the offset it names after "at position" (<<>>
\* when it names none) and the line and column it names after "at line"
\* (<<>> when it names none).  at is the index of the offending character.
SyntaxErrorMessages(text, at) ==
    LET before == SubSeq(text, 1, at - 1)
        atEnd == at > Len(text)
    IN {\* V8 up to Node 18
        IF atEnd
        THEN [text |-> "Unexpected end of JSON input", position |-> <<>>, lineColumn |-> <<>>]
        ELSE IF text[at] = "\""
        THEN [text |-> "Unexpected string in JSON at position",
              position |-> <<at - 1>>, lineColumn |-> <<>>]
        ELSE IF text[at] \in DigitSet
        THEN [text |-> "Unexpected number in JSON at position",
              position |-> <<at - 1>>, lineColumn |-> <<>>]
        ELSE [text |-> "Unexpected token in JSON at position",
              position |-> <<at - 1>>, lineColumn |-> <<>>],
        \* V8 from Node 20: a message that names what it expected and where
        [text |-> "Expected property name or '}' in JSON at position (line column)",
         position |-> <<at - 1>>, lineColumn |-> <<>>],
        [text |-> "Expected ',' or '}' after property value in JSON at position (line column)",
         position |-> <<at - 1>>, lineColumn |-> <<>>],
        \* V8 from Node 20: a message that quotes the text
        IF atEnd
        THEN [text |-> "Unexpected end of JSON input", position |-> <<>>, lineColumn |-> <<>>]
        ELSE [text |-> "Unexpected token, is not valid JSON",
              position |-> <<>>, lineColumn |-> <<>>],
        \* SpiderMonkey
        [text |-> "JSON.parse: unexpected character at line column of the JSON data",
         position |-> <<>>,
         lineColumn |-> <<CountLineFeeds(before) + 1, LastLineLength(before) + 1>>],
        \* JavaScriptCore
        [text |-> "JSON Parse error: Unexpected token", position |-> <<>>, lineColumn |-> <<>>]}

\* the first pattern that the message matches decides the text
sanitizeErrorMessage(message) ==
    CASE message = "Unexpected token in JSON at position" ->
            "Invalid JSON syntax - unexpected character"
      [] message = "Unexpected end of JSON input" ->
            "JSON is incomplete - missing closing brackets or quotes"
      [] message = "Expected property name or '}' in JSON at position (line column)" ->
            "Missing property name or closing bracket"
      [] message = "Unexpected string in JSON at position" ->
            "Unexpected string value - check for missing commas or quotes"
      [] message = "Unexpected number in JSON at position" ->
            "Unexpected number - check for missing commas"
      [] OTHER -> message

\* input.substring(0, position)
Substring0(s, n) == SubSeq(s, 1, IF n < Len(s) THEN n ELSE Len(s))

parseJsonError(input, error) ==
    LET fromPosition ==
            IF error.position # <<>>
            THEN LET head == Substring0(input, error.position[1])
                 IN <<CountLineFeeds(head) + 1, LastLineLength(head) + 1>>
            ELSE <<1, 1>>
        lineColumn == IF error.lineColumn # <<>> THEN error.lineColumn ELSE fromPosition
    IN [isValid |-> FALSE,
        error |-> sanitizeErrorMessage(error.text),
        lineNumber |-> lineColumn[1],
        columnNumber |-> lineColumn[2]]

\* validateJson without the test of the root
validateJson_AnyRoot(input) ==
    IF input = <<>> \/ trim(input) = <<>>
    THEN {[isValid |-> FALSE,
           error |-> "Input is empty or contains only whitespace",
           lineNumber |-> 1,
           columnNumber |-> 1]}
    ELSE LET trimmedInput == trim(input)
             parsed == ParseJsonText(trimmedInput)
         IN IF parsed.ok
            THEN {[isValid |-> TRUE, data |-> JSONParse(parsed.value)]}
            ELSE {parseJsonError(input, e) : e \in SyntaxErrorMessages(trimmedInput, parsed.at)}

\* the results validateJson can return for input, one for each message the
\* engine can give when JSON.parse throws
validateJson(input) ==
    IF input = <<>> \/ trim(input) = <<>>
    THEN {[isValid |-> FALSE,
           error |-> "Input is empty or contains only whitespace",
           lineNumber |-> 1,
           columnNumber |-> 1]}
    ELSE LET trimmedInput == trim(input)
             parsed == ParseJsonText(trimmedInput)
         IN IF parsed.ok
            THEN LET data == JSONParse(parsed.value)
                 IN IF data.type # "object"
                    THEN {[isValid |-> FALSE,
                           error |-> "Root element must be a JSON object, not an array or primitive value",
                           lineNumber |-> 1,
                           columnNumber |-> 1]}
                    ELSE {[isValid |-> TRUE, data |-> data]}
            ELSE {parseJsonError(input, e) : e \in SyntaxErrorMessages(trimmedInput, parsed.at)}

(***************************************************************************)
(* The raw inputs of the model.                                            *)
(***************************************************************************)
\* nodes below the root object in the generated documents of the raw inputs
MaxServiceNodes == 1

\* documents with several sections and top-level leaves between them, with
\* the sections that the inspector looks into, with first segments that are
\* names of Object.prototype or the word root
ServiceFixtureDocuments ==
    {JObj(<<Member(<<"a">>, JNum(1)),
            Member(<<"b">>, JObj(<<Member(<<"x">>, JStr(<<"T", " ", "x">>)),
                                   Member(<<"y">>, JNull)>>)),
            Member(<<"c">>, JBool(TRUE)),
            Member(<<"d">>, JObj(<<Member(<<"z">>, JArr(<<JNum(1), JStr(<<>>)>>))>>)),
            Member(<<"b">>, JObj(<<Member(<<"w">>, JNum(0))>>))>>),
     JObj(<<Member(<<"c", "o", "n", "s", "t", "r", "u", "c", "t", "o", "r">>, JObj(<<Member(<<"a">>, JNum(1))>>))>>),
     JObj(<<Member(<<"b">>, JNum(1)),
            Member(<<"t", "o", "S", "t", "r", "i", "n", "g">>, JObj(<<Member(<<"a">>, JStr(<<"x">>))>>))>>),
     JObj(<<Member(<<"a">>, JNum(1)),
            Member(<<"r", "o", "o", "t">>, JObj(<<Member(<<"x">>, JNum(2))>>)),
            Member(<<"c">>, JNum(3))>>),
     JObj(<<Member(<<"C", "o", "n", "n", "e", "c", "t", "i", "o", "n", "S", "t", "r", "i", "n", "g", "s">>,
                JObj(<<Member(<<"D","b">>, JStr(<<>>)), Member(<<"N">>, JNum(5)),
                       Member(<<"R">>, JStr(<<"h", ":", "1">>))>>)),
            Member(<<"L", "o", "g", "g", "i", "n", "g">>,
                JObj(<<Member(<<"L", "o", "g", "L", "e", "v", "e", "l">>,
                    JObj(<<Member(<<"D", "e", "f", "a", "u", "l", "t">>, JNum(1)),
                           Member(<<"M", ".", "H">>, JStr(<<"W">>))>>))>>)),
            Member(<<"A", "l", "l", "o", "w", "e", "d", "H", "o", "s", "t", "s">>, JArr(<<JStr(<<"*">>)>>)),
            Member(<<"H">>, JArr(<<JNum(1)>>)),
            Member(<<"a", "_", "_", "b">>, JStr(<<"a", "\\", "\"">>))>>)}

ServiceDocuments ==
    UNION {ObjectsOver(ValueSeqsOfSize(n)) : n \in 0..MaxServiceNodes}
        \cup FixtureDocuments \cup ServiceFixtureDocuments

\* the text of a document without white space
CompactTexts(documents) == {JSONStringify(d) : d \in documents}

\* a text with JSON white space in front of it and after it
Padded(texts) ==
    {before \o t \o after : t \in texts,
                            before \in {<<>>, <<" ">>, <<"\n", "\n", " ", "\t">>},
                            after \in {<<>>, <<"\r", "\n">>}}

\* a text with white space between its tokens
SpacedText == <<"{", " ", "\"", "a", "\"", " ", ":", " ", "[", " ", "1", " ", ",", "\n", " ", " ", "{", " ", "}", " ", "]", " ", ",", "\n", "\t", "\"", "b", "\"", " ", ":", " ", "n", "u", "l", "l", " ", "}">>

\* the texts of objects
\* the longest chain of nested values in the deep documents
MaxDepth == 12

\* A chain is a document with one value at each level: shape[i] tells how
\* level i holds the next one: as the member k of an object, as the member
\* k.k.k of an object, or as the only item of an array.
RECURSIVE Chain(_, _)
Chain(shape, i) ==
    IF i > Len(shape) THEN JNum(1)
    ELSE IF shape[i] = "array" THEN JArr(<<Chain(shape, i + 1)>>)
    ELSE IF shape[i] = "dotted"
    THEN JObj(<<Member(<<"k", ".", "k", ".", "k">>, Chain(shape, i + 1))>>)
    ELSE JObj(<<Member(<<"k">>, Chain(shape, i + 1))>>)

\* chains of objects, chains where objects and arrays alternate, and short
\* chains of objects whose keys have dots
ChainShapes ==
    {[i \in 1..n |-> "object"] : n \in (MaxDepth - 3)..MaxDepth}
        \cup {[i \in 1..n |-> IF i % 2 = 1 THEN "object" ELSE "array"] :
                    n \in (MaxDepth - 2)..MaxDepth}
        \cup {[i \in 1..n |-> "dotted"] : n \in 3..4}

DeepDocuments == {Chain(shape, 1) : shape \in ChainShapes}

\* texts whose strings have escapes, each with the document it denotes: a
\* line feed inside a value, between other members, and a tab
EscapedDocumentTexts ==
    {<<<<"{", "\"", "a", "\"", ":", "\"", "x", "\\", "n", "y", "\"", ",", "\"", "b", "\"", ":", "2", "}">>,
       JObj(<<Member(<<"a">>, JStr(<<"x", "\n", "y">>)), Member(<<"b">>, JNum(2))>>)>>,
     <<<<"{", "\"", "s", "\"", ":", "{", "\"", "k", "\"", ":", "\"", "\\", "n", "\"", "}", "}">>,
       JObj(<<Member(<<"s">>, JObj(<<Member(<<"k">>, JStr(<<"\n">>))>>))>>)>>,
     <<<<"{", "\"", "a", "\"", ":", "\"", "x", "\\", "t", "\"", "}">>,
       JObj(<<Member(<<"a">>, JStr(<<"x", "\t">>))>>)>>}

EscapedTexts == {p[1] : p \in EscapedDocumentTexts}

ObjectTexts ==
    CompactTexts(ServiceDocuments) \cup Padded(CompactTexts(ServiceFixtureDocuments))
        \cup {SpacedText} \cup EscapedTexts \cup CompactTexts(DeepDocuments)

\* texts of objects between characters that trim removes and that the JSON
\* grammar does not allow
TrimmedOnlyTexts ==
    {before \o t \o after : t \in CompactTexts(ServiceFixtureDocuments),
                            before \in {<<>>, <<"\f">>, <<"\n", "\f", " ">>},
                            after \in {<<>>, <<"\f">>}}
        \ CompactTexts(ServiceFixtureDocuments)

\* texts of other values
OtherRootTexts ==
    Padded({<<"[", "1", "]">>, <<"[", "]">>, <<"[", "{", "\"", "a", "\"", ":", "1", "}", "]">>, <<"n", "u", "l", "l">>, <<"t", "r", "u", "e">>, <<"f", "a", "l", "s", "e">>, <<"1", "2">>,
            <<"-", "7">>, <<"\"", "x", "\"">>, <<"\"", "\"">>})

BlankTexts == {<<>>, <<" ">>, <<"\n", "\t", " ">>, <<"\f">>, <<"\r", "\n">>}

\* the proper, non-empty beginnings of a text
Beginnings(t) == {SubSeq(t, 1, n) : n \in 1..(Len(t) - 1)}

\* texts that are not JSON: object texts cut short or with something after
\* them, and texts with one wrong token
MalformedTexts ==
    UNION {Beginnings(t) : t \in CompactTexts(ServiceFixtureDocuments)}
        \cup {t \o x : t \in CompactTexts(ServiceFixtureDocuments),
                       x \in {<<"}">>, <<" ", "x">>, <<",">>, <<"\n", "{", "}">>}}
        \cup {<<"{", "\"", "a", "\"", ":", " ", "1", ",", "}">>, <<"\n", "\n", " ", " ", "{", "\"", "a", "\"", ":", " ", "1", ",", "}">>, <<"{", "\"", "a", "\"", ":", " ", "v", "a", "l", "u", "e", "}">>, <<"{", "a", ":", "1", "}">>,
              <<"{", "\"", "a", "\"", " ", "1", "}">>, <<"{", "\"", "a", "\"", ":", "0", "1", "}">>, <<"{", "\"", "a", "\"", ":", "\"", "x", "\n", "y", "\"", "}">>, <<"{", "\"", "a", "\"", ":", "\"", "\\", "q", "\"", "}">>,
              <<"{", "\"", "a", "\"", ":", "[", "1", ",", "]", "}">>, <<"{", "\"", "a", "\"", ":", "[", "1", " ", "2", "]", "}">>, <<"{", "\"", "a", "\"", ":", "\f", "1", "}">>, <<"{", "\"", "a", "\"", ":", "t", "r", "u", "}">>,
              <<"{", "\n", " ", "\"", "a", "\"", ":", " ", "1", ",", "\n", " ", "\"", "b", "\"", ":", " ", "]", "\n", "}">>, <<" ", "\n", "{", "\"", "a", "\"", ":", "1", "}", "}", "\n">>, <<"x">>, <<"{", "\"", "a", "\"", ":", "-", "}">>,
              <<"{", "'", "a", "'", ":", "1", "}">>, <<"[", "1">>, <<"n", "u", "l">>, <<"\"", "x">>}

RawInputs ==
    ObjectTexts \cup TrimmedOnlyTexts \cup OtherRootTexts \cup BlankTexts \cup MalformedTexts

(***************************************************************************)
(* One call of validateJson.                                               *)
(***************************************************************************)
InitValidate ==
    /\ pc = "start"
    /\ heap = InitialObjects
    /\ calls = 0
    /\ rawInput \in RawInputs
    /\ steps = <<>>
    /\ validation = <<>>
    /\ outputFormat = "docker-compose"
    /\ formatOptions = <<>>
    /\ serviceResult = <<>>
    /\ ConverterIdle
    /\ FormatterIdle

ValidateJson ==
    /\ pc = "start"
    /\ validation' \in validateJson(rawInput)
    /\ pc' = "parsed"
    /\ UNCHANGED <<rawInput, steps, outputFormat, formatOptions, serviceResult,
                   converterVars, formatterVars, callVars>>

NextValidate == ValidateJson

SpecValidate == InitValidate /\ [][NextValidate]_vars

(***************************************************************************)
(* Properties of validateJson.                                             *)
(***************************************************************************)
\* s without the white space (of JavaScript) at its two ends
WithoutOuterWhiteSpace(s) ==
    LET inner == {i \in DOMAIN s : s[i] \notin WhiteSpace}
    IN IF inner = {} THEN <<>>
       ELSE SubSeq(s, CHOOSE i \in inner : \A j \in inner : i <= j,
                      CHOOSE i \in inner : \A j \in inner : i >= j)

\* the object that a text of ObjectTexts denotes: the document it was written
\* from, with the members of an object as JSON.parse defines them
DocumentTexts ==
    {<<JSONStringify(d), d>> : d \in ServiceDocuments \cup DeepDocuments}
        \cup EscapedDocumentTexts

DenotedObject(t) ==
    IF WithoutOuterWhiteSpace(t) = WithoutOuterWhiteSpace(SpacedText)
    THEN JObj(<<Member(<<"a">>, JArr(<<JNum(1), JObj(<<>>)>>)), Member(<<"b">>, JNull)>>)
    ELSE JSONParse((CHOOSE p \in DocumentTexts : p[1] = WithoutOuterWhiteSpace(t))[2])

\* the object texts with the white space at their ends removed
ObjectTextCores == {WithoutOuterWhiteSpace(t) : t \in ObjectTexts}

Rejected(v) ==
    /\ DOMAIN v = {"isValid", "error", "lineNumber", "columnNumber"}
    /\ v.isValid = FALSE
    /\ v.error # ""
    /\ v.lineNumber >= 1
    /\ v.columnNumber >= 1

\* C17 as stated: validateJson returns isValid=true with the parsed object
\* exactly when the input is non-blank, syntactically valid JSON whose root
\* is an object; otherwise isValid=false, a non-empty error, lineNumber and
\* columnNumber at least 1, and no data.
C17_ValidateJson ==
    pc = "parsed" =>
        IF rawInput \in ObjectTexts
        THEN validation = [isValid |-> TRUE, data |-> DenotedObject(rawInput)]
        ELSE Rejected(validation)

\* C17, amended: as C17_ValidateJson, for the input with the white space at
\* its ends removed as String.prototype.trim removes it, which includes
\* characters that JSON does not allow around a value.
C17_ValidateTrimmedJson ==
    pc = "parsed" =>
        IF WithoutOuterWhiteSpace(rawInput) \in ObjectTextCores
        THEN validation = [isValid |-> TRUE, data |-> DenotedObject(rawInput)]
        ELSE Rejected(validation)

C17_Witness ==
    /\ pc = "parsed"
    /\ rawInput \in TrimmedOnlyTexts
    /\ rawInput[1] = "\n"
    /\ validation.isValid
    /\ Len(validation.data.members) = 3

(***************************************************************************)
(* parser.ts: parseAppSettings, the inspector of the parsed document.      *)
(***************************************************************************)
\* obj[name] for a parsed object: <<>> (undefined) or <<value>>
Property(obj, name) ==
    LET own == {i \in DOMAIN obj.members : obj.members[i].key = name}
    IN IF own = {} THEN <<>> ELSE <<obj.members[CHOOSE i \in own : TRUE].value>>

\* Object.entries of an object or of an array
EntriesOf(v) ==
    IF v.type = "array"
    THEN [i \in DOMAIN v.items |-> Member(NatToString(i - 1), v.items[i])]
    ELSE v.members

\* value && typeof value === 'object'
IsObjectLike(found) == found # <<>> /\ found[1].type \in {"object", "array"}

validateCommonSections(data, warns) ==
    LET connectionStrings == Property(data, <<"C", "o", "n", "n", "e", "c", "t", "i", "o", "n", "S", "t", "r", "i", "n", "g", "s">>)
        w1 == IF IsObjectLike(connectionStrings)
              THEN LET entries == EntriesOf(connectionStrings[1])
                       notes == [i \in DOMAIN entries |->
                            IF entries[i].value.type # "string"
                            THEN <<Warning("ConnectionString is not a string value",
                                           entries[i].key)>>
                            ELSE IF entries[i].value.s = <<>>
                            THEN <<Warning("ConnectionString is empty", entries[i].key)>>
                            ELSE <<>>]
                   IN warns \o Concat(notes)
              ELSE warns
        logging == Property(data, <<"L", "o", "g", "g", "i", "n", "g">>)
        logLevel == IF IsObjectLike(logging) /\ logging[1].type = "object"
                    THEN Property(logging[1], <<"L", "o", "g", "L", "e", "v", "e", "l">>)
                    ELSE <<>>
        w2 == IF IsObjectLike(logLevel)
              THEN LET entries == EntriesOf(logLevel[1])
                       notes == [i \in DOMAIN entries |->
                            IF entries[i].value.type # "string"
                            THEN <<Warning("LogLevel should be a string value",
                                           entries[i].key)>>
                            ELSE <<>>]
                   IN w1 \o Concat(notes)
              ELSE w1
        rootEntries == ObjectEntries(data)
        rootNotes == [i \in DOMAIN rootEntries |->
                        IF rootEntries[i].value.type = "array"
                            /\ rootEntries[i].key # <<"A", "l", "l", "o", "w", "e", "d", "H", "o", "s", "t", "s">>
                        THEN <<Warning("Array found at root level - ensure this is intentional",
                                       rootEntries[i].key)>>
                        ELSE <<>>]
    IN w2 \o Concat(rootNotes)

\* key.includes('__')
IncludesDoubleUnderscore(k) ==
    \E i \in 1..(Len(k) - 1) : k[i] = "_" /\ k[i + 1] = "_"

\* the warnings about one key
KeyWarnings(k) ==
    (IF IncludesDoubleUnderscore(k)
     THEN <<Warning("Key contains double underscores - may cause conflicts with converted output", k)>>
     ELSE <<>>)
    \o (IF Contains(k, {"."})
        THEN <<Warning("Key contains dots - will be converted to double underscores", k)>>
        ELSE <<>>)
    \o (IF k = <<>> \/ ~IsIdentStart(k[1]) \/ \E i \in DOMAIN k : ~IsIdentChar(k[i])
        THEN <<Warning("Key contains special characters - ensure compatibility with your environment", k)>>
        ELSE <<>>)

\* path.split('.').length > 10
TooDeep(path) == Cardinality({i \in DOMAIN path : path[i] = "."}) + 1 > 10

RECURSIVE validateStructure(_, _, _)
RECURSIVE StructureOfItems(_, _, _, _)
RECURSIVE StructureOfEntries(_, _, _, _)

StructureOfItems(items, i, path, warns) ==
    IF i > Len(items) THEN warns
    ELSE LET index == <<"[">> \o NatToString(i - 1) \o <<"]">>
             itemPath == IF path # <<>> THEN path \o index ELSE index
         IN StructureOfItems(items, i + 1, path,
                             validateStructure(items[i], itemPath, warns))

StructureOfEntries(entries, i, path, warns) ==
    IF i > Len(entries) THEN warns
    ELSE LET k == entries[i].key
             newPath == IF path # <<>> THEN path \o <<".">> \o k ELSE k
         IN StructureOfEntries(entries, i + 1, path,
                validateStructure(entries[i].value, newPath, warns \o KeyWarnings(k)))

\* errors is left out: nothing is ever pushed to it
validateStructure(data, path, warns) ==
    LET below == IF data.type = "array" THEN StructureOfItems(data.items, 1, path, warns)
                 ELSE IF data.type = "object"
                 THEN StructureOfEntries(ObjectEntries(data), 1, path, warns)
                 ELSE warns
    IN IF TooDeep(path)
       THEN Append(below, Warning("Very deep nesting detected - consider flattening structure",
                                  path))
       ELSE below

parseAppSettings(data) ==
    [isValid |-> TRUE,
     warnings |-> validateStructure(data, <<>>, validateCommonSections(data, <<>>)),
     errors |-> <<>>]

(***************************************************************************)
(* converter.ts: analyzeConversionComplexity.                              *)
(***************************************************************************)
Max(a, b) == IF a > b THEN a ELSE b

RECURSIVE analyzeObjectComplexity(_, _, _)
RECURSIVE ComplexityOfAll(_, _, _, _)

ComplexityOfAll(values, i, depth, stats) ==
    IF i > Len(values) THEN stats
    ELSE ComplexityOfAll(values, i + 1, depth,
                         analyzeObjectComplexity(values[i], depth, stats))

analyzeObjectComplexity(obj, depth, stats) ==
    LET s1 == [stats EXCEPT !.maxDepth = Max(@, depth)]
    IN IF obj.type = "array"
       THEN ComplexityOfAll(obj.items, 1, depth + 1, [s1 EXCEPT !.arrayCount = @ + 1])
       ELSE IF obj.type = "object"
       THEN ComplexityOfAll([i \in DOMAIN obj.members |-> obj.members[i].value], 1, depth + 1,
                            [s1 EXCEPT !.totalKeys = @ + Len(obj.members)])
       ELSE s1

analyzeConversionComplexity(data) ==
    LET stats == analyzeObjectComplexity(data, 1,
                    [totalKeys |-> 0, maxDepth |-> 0, arrayCount |-> 0])
        recommendations ==
            (IF stats.totalKeys > 100
             THEN <<"Large configuration detected - consider splitting into multiple files">>
             ELSE <<>>)
            \o (IF stats.maxDepth > 6
                THEN <<"Deep nesting detected - consider flattening configuration structure">>
                ELSE <<>>)
            \o (IF stats.arrayCount > 10
                THEN <<"Many arrays detected - ensure array handling matches your deployment needs">>
                ELSE <<>>)
    IN [totalKeys |-> stats.totalKeys,
        maxDepth |-> stats.maxDepth,
        arrayCount |-> stats.arrayCount,
        recommendations |-> recommendations]

(***************************************************************************)
(* converter.ts: formatOutput and the three renderers.                     *)
(***************************************************************************)
\* the characters of an originalType
TypeChars(t) ==
    CASE t = "string" -> <<"s", "t", "r", "i", "n", "g">>
      [] t = "number" -> <<"n", "u", "m", "b", "e", "r">>
      [] t = "boolean" -> <<"b", "o", "o", "l", "e", "a", "n">>
      [] t = "object" -> <<"o", "b", "j", "e", "c", "t">>
      [] t = "array" -> <<"a", "r", "r", "a", "y">>
      [] t = "null" -> <<"n", "u", "l", "l">>

\* ' '.repeat(n)
Spaces(n) == [i \in 1..n |-> " "]

formatDockerCompose(envVars, opts) ==
    LET indent == Spaces(opts.indentLevel)
        lines == <<<<"e", "n", "v", "i", "r", "o", "n", "m", "e", "n", "t", ":">>>>
                 \o [i \in DOMAIN envVars |->
                        IF opts.useArrayFormat
                        THEN indent \o <<"-", " ">> \o envVars[i].key \o <<"=">>
                                    \o escapeYamlValue(envVars[i].value)
                        ELSE indent \o envVars[i].key \o <<":", " ">>
                                    \o escapeYamlValue(envVars[i].value)]
    IN Join(lines, <<"\n">>)

\* key.split('__'): parts[0] when there is more than one part
extractTopLevelSection(k) ==
    LET found == {i \in 1..(Len(k) - 1) : k[i] = "_" /\ k[i + 1] = "_"}
    IN IF found = {} THEN <<"r", "o", "o", "t">>
       ELSE SubSeq(k, 1, (CHOOSE i \in found : \A j \in found : i <= j) - 1)

\* the property names that the object literal {} inherits from
\* Object.prototype: grouped[section] finds them before any group is created
ObjectPrototypeNames ==
    {<<"c", "o", "n", "s", "t", "r", "u", "c", "t", "o", "r">>, <<"t", "o", "S", "t", "r", "i", "n", "g">>, <<"t", "o", "L", "o", "c", "a", "l", "e", "S", "t", "r", "i", "n", "g">>, <<"v", "a", "l", "u", "e", "O", "f">>,
     <<"h", "a", "s", "O", "w", "n", "P", "r", "o", "p", "e", "r", "t", "y">>, <<"i", "s", "P", "r", "o", "t", "o", "t", "y", "p", "e", "O", "f">>, <<"p", "r", "o", "p", "e", "r", "t", "y", "I", "s", "E", "n", "u", "m", "e", "r", "a", "b", "l", "e">>, <<"_", "_", "p", "r", "o", "t", "o", "_", "_">>,
     <<"_", "_", "d", "e", "f", "i", "n", "e", "G", "e", "t", "t", "e", "r", "_", "_">>, <<"_", "_", "d", "e", "f", "i", "n", "e", "S", "e", "t", "t", "e", "r", "_", "_">>, <<"_", "_", "l", "o", "o", "k", "u", "p", "G", "e", "t", "t", "e", "r", "_", "_">>,
     <<"_", "_", "l", "o", "o", "k", "u", "p", "S", "e", "t", "t", "e", "r", "_", "_">>}

\* envVars.forEach of groupVariablesBySection from the record i on; grouped
\* is the own properties created so far.  An inherited property is truthy,
\* so no group is created for its name, and it has no push: a TypeError.
RECURSIVE GroupFrom(_, _, _)
GroupFrom(envVars, i, grouped) ==
    IF i > Len(envVars) THEN [threw |-> FALSE, grouped |-> grouped]
    ELSE LET section == extractTopLevelSection(envVars[i].key)
             own == {j \in DOMAIN grouped : grouped[j].key = section}
         IN IF own # {}
            THEN GroupFrom(envVars, i + 1,
                    [grouped EXCEPT ![CHOOSE j \in own : TRUE].value = Append(@, envVars[i])])
            ELSE IF section \in ObjectPrototypeNames
            THEN [threw |-> TRUE, message |-> "grouped[section].push is not a function"]
            ELSE GroupFrom(envVars, i + 1, Append(grouped, Member(section, <<envVars[i]>>)))

groupVariablesBySection(envVars) == GroupFrom(envVars, 1, <<>>)

\* the lines that formatEnvFile pushes for one record
EnvRecordLines(envVar, opts) ==
    (IF opts.includeComments /\ envVar.originalType # "string"
     THEN <<<<"#", " ", "O", "r", "i", "g", "i", "n", "a", "l", " ", "t", "y", "p", "e", ":", " ">> \o TypeChars(envVar.originalType)>>
          \o (IF envVar.originalPath # <<>>
              THEN <<<<"#", " ", "J", "S", "O", "N", " ", "p", "a", "t", "h", ":", " ">> \o envVar.originalPath>>
              ELSE <<>>)
     ELSE <<>>)
    \o <<envVar.key \o <<"=">> \o escapeEnvValue(envVar.value, opts.quoteValues)>>

\* the lines that formatEnvFile pushes for one group
EnvSectionLines(section, sectionVars, opts) ==
    (IF opts.includeComments /\ section # <<"r", "o", "o", "t">>
     THEN <<<<"#", " ">> \o section \o <<" ", "c", "o", "n", "f", "i", "g", "u", "r", "a", "t", "i", "o", "n">>>>
     ELSE <<>>)
    \o Concat([i \in DOMAIN sectionVars |-> EnvRecordLines(sectionVars[i], opts)])
    \o <<<<>>>>

\* while (lines.length > 0 && lines[lines.length - 1] === '') lines.pop()
RECURSIVE PopEmptyLines(_)
PopEmptyLines(lines) ==
    IF lines # <<>> /\ lines[Len(lines)] = <<>>
    THEN PopEmptyLines(SubSeq(lines, 1, Len(lines) - 1))
    ELSE lines

\* the lines formatEnvFile joins, given what groupVariablesBySection did
EnvFileText(header, grouping, opts) ==
    IF grouping.threw THEN grouping
    ELSE [threw |-> FALSE,
          output |-> Join(PopEmptyLines(header
                        \o Concat([i \in DOMAIN OwnPropertyOrder(grouping.grouped) |->
                                EnvSectionLines(OwnPropertyOrder(grouping.grouped)[i].key,
                                                OwnPropertyOrder(grouping.grouped)[i].value,
                                                opts)])),
                          <<"\n">>)]

\* the string formatEnvFile returns, or the error it throws
formatEnvFile(envVars, opts) ==
    EnvFileText(IF opts.includeComments
                THEN <<<<"#", " ", "G", "e", "n", "e", "r", "a", "t", "e", "d", " ", "f", "r", "o", "m", " ", "a", "p", "p", "s", "e", "t", "t", "i", "n", "g", "s", ".", "j", "s", "o", "n">>,
                       <<"#", " ", "T", "h", "i", "s", " ", "f", "i", "l", "e", " ", "c", "o", "n", "t", "a", "i", "n", "s", " ", "e", "n", "v", "i", "r", "o", "n", "m", "e", "n", "t", " ", "v", "a", "r", "i", "a", "b", "l", "e", "s", " ", "f", "o", "r", " ", "y", "o", "u", "r", " ", "a", "p", "p", "l", "i", "c", "a", "t", "i", "o", "n">>,
                       <<>>>>
                ELSE <<>>,
                groupVariablesBySection(envVars), opts)

formatPlainText(envVars, opts) ==
    LET prefix == IF opts.includeExport THEN <<"e", "x", "p", "o", "r", "t", " ">> ELSE <<>>
        lines == [i \in DOMAIN envVars |->
                    prefix \o envVars[i].key \o opts.separator
                           \o escapeShellValue(envVars[i].value)]
    IN Join(lines, <<"\n">>)

\* the string formatOutput returns, or the error it throws
formatOutput(envVars, format, fmtOptions) ==
    CASE format = "docker-compose" ->
            [threw |-> FALSE, output |-> formatDockerCompose(envVars, fmtOptions.dockerCompose)]
      [] format = "env-file" -> formatEnvFile(envVars, fmtOptions.envFile)
      [] format = "plain-text" ->
            [threw |-> FALSE, output |-> formatPlainText(envVars, fmtOptions.plainText)]
      [] OTHER -> [threw |-> TRUE, message |-> "Unsupported output format: " \o format]

\* the warnings that validateEnvironmentVariableNames pushes for the record i
NameWarnings(envVars, i) ==
    LET k == envVars[i].key
    IN (IF \E j \in 1..(i - 1) : envVars[j].key = k
        THEN <<Warning("Duplicate environment variable key: ", k)>>
        ELSE <<>>)
       \o (IF k = <<>> \/ ~IsIdentStart(k[1]) \/ \E j \in DOMAIN k : ~IsIdentChar(k[j])
           THEN <<Warning("Invalid environment variable name: ", k)>>
           ELSE <<>>)
       \o (IF Len(k) > 255
           THEN <<Warning("Environment variable name too long: ", k)>>
           ELSE <<>>)
       \o (IF Len(envVars[i].value) > 32767
           THEN <<Warning("Environment variable value too long for key: ", k)>>
           ELSE <<>>)

validateEnvironmentVariableNames(envVars) ==
    Concat([i \in DOMAIN envVars |-> NameWarnings(envVars, i)])

\* the result of createFormattedResult, given what formatOutput did
FormattedResult(envVars, formatted, caughtWarnings, allWarnings) ==
    IF formatted.threw
    THEN [success |-> FALSE,
          environmentVariables |-> envVars,
          formattedOutput |-> <<>>,
          warnings |-> caughtWarnings,
          error |-> formatted.message]
    ELSE [success |-> TRUE,
          environmentVariables |-> envVars,
          formattedOutput |-> formatted.output,
          warnings |-> allWarnings]

\* createFormattedResult returning the name warnings with a failure too
createFormattedResult_AllWarnings(envVars, format, fmtOptions, existingWarnings) ==
    FormattedResult(envVars, formatOutput(envVars, format, fmtOptions),
                    existingWarnings \o validateEnvironmentVariableNames(envVars),
                    existingWarnings \o validateEnvironmentVariableNames(envVars))

createFormattedResult(envVars, format, fmtOptions, existingWarnings) ==
    FormattedResult(envVars, formatOutput(envVars, format, fmtOptions),
                    existingWarnings,
                    existingWarnings \o validateEnvironmentVariableNames(envVars))

(***************************************************************************)
(* conversion-service.ts                                                   *)
(***************************************************************************)
\* One run of convertAppsettingsToEnvironmentVariables(input) after
\* validateJson accepted the input, told as the steps it reaches, its local
\* warnings, the validated options, the records, and the result it returns.
\* input is a function on the fields the caller supplies: jsonInput,
\* outputFormat and, optionally, conversionOptions and formatOptions.

\* steps 7 and 8, or the return of a format failure
ServiceReturn(conversionOptions, envVars, collected, formattedResult, complexityStats) ==
    IF ~formattedResult.success
    THEN [steps |-> <<"validateJson", "parseAppSettings", "validateConversionOptions",
                      "convertToEnvironmentVariables", "createFormattedResult">>,
          warnings |-> collected,
          conversionOptions |-> conversionOptions,
          environmentVariables |-> envVars,
          returned |->
            [success |-> FALSE,
             warnings |-> formattedResult.warnings,
             error |-> [type |-> "FORMATTING_FAILED",
                        message |-> formattedResult.error]]]
    ELSE [steps |-> <<"validateJson", "parseAppSettings", "validateConversionOptions",
                      "convertToEnvironmentVariables", "createFormattedResult",
                      "analyzeConversionComplexity">>,
          warnings |-> collected,
          conversionOptions |-> conversionOptions,
          environmentVariables |-> envVars,
          returned |->
            [success |-> TRUE,
             output |-> formattedResult.formattedOutput,
             environmentVariables |->
                [i \in DOMAIN envVars |->
                    [key |-> envVars[i].key,
                     value |-> envVars[i].value,
                     originalPath |-> envVars[i].originalPath,
                     originalType |-> envVars[i].originalType]],
             warnings |-> formattedResult.warnings,
             stats |-> [totalVariables |-> complexityStats.totalKeys,
                        maxDepth |-> complexityStats.maxDepth,
                        arrayCount |-> complexityStats.arrayCount,
                        recommendations |-> complexityStats.recommendations]]]

\* steps 5 and 6: the format options and createFormattedResult
ServiceFormat(input, data, conversionOptions, envVars, collected) ==
    ServiceReturn(conversionOptions, envVars, collected,
        createFormattedResult(envVars, input.outputFormat,
            Spread(DEFAULT_FORMAT_OPTIONS,
                   IF "formatOptions" \in DOMAIN input THEN input.formatOptions ELSE <<>>),
            collected),
        analyzeConversionComplexity(data))

\* step 4: convertToEnvironmentVariables, whose warnings follow the
\* inspector's
ServiceConvert(input, data, inspected, conversionOptions, conversionResult) ==
    ServiceFormat(input, data, conversionOptions, conversionResult.environmentVariables,
                  inspected \o conversionResult.warnings)

\* step 3: validateConversionOptions
ServiceOptions(input, data, inspected, conversionOptions) ==
    ServiceConvert(input, data, inspected, conversionOptions,
                   convertToEnvironmentVariables(data, conversionOptions))

\* step 2: parseAppSettings, which never reports an error
ServiceRunValid(input, checked) ==
    ServiceOptions(input, checked.data, parseAppSettings(checked.data).warnings,
                   validateConversionOptions(
                        IF "conversionOptions" \in DOMAIN input THEN input.conversionOptions
                        ELSE OptionDefaults))

\* ServiceRun reporting the default position instead of the validator's
ServiceRun_DefaultPosition(input, checked) ==
    IF ~checked.isValid
    THEN [steps |-> <<"validateJson">>,
          warnings |-> <<>>,
          returned |->
            [success |-> FALSE,
             warnings |-> <<>>,
             error |-> [type |-> "VALIDATION_FAILED",
                        message |-> checked.error,
                        lineNumber |-> 1,
                        columnNumber |-> 1]]]
    ELSE ServiceRunValid(input, checked)

\* One run of convertAppsettingsToEnvironmentVariables(input) when
\* validateJson returns checked.
ServiceRun(input, checked) ==
    IF ~checked.isValid
    THEN [steps |-> <<"validateJson">>,
          warnings |-> <<>>,
          returned |->
            [success |-> FALSE,
             warnings |-> <<>>,
             error |-> [type |-> "VALIDATION_FAILED",
                        message |-> checked.error,
                        lineNumber |-> checked.lineNumber,
                        columnNumber |-> checked.columnNumber]]]
    ELSE ServiceRunValid(input, checked)

\* the results the call can return, one for each result of validateJson
convertAppsettingsToEnvironmentVariables(input) ==
    {ServiceRun(input, checked).returned : checked \in validateJson(input.jsonInput)}

(***************************************************************************)
(* One call of convertAppsettingsToEnvironmentVariables.                   *)
(***************************************************************************)
\* the raw inputs of a call
ServiceRawInputs ==
    ObjectTexts \cup TrimmedOnlyTexts \cup OtherRootTexts \cup BlankTexts
        \cup (MalformedTexts
                \ UNION {Beginnings(t) : t \in CompactTexts(ServiceFixtureDocuments)})

\* input.conversionOptions: <<>> when it is not supplied, <<options>> when
\* it is
ServiceConversionOptions ==
    {<<>>,
     <<[keySeparator |-> <<":">>]>>,
     <<[includeArrayIndices |-> FALSE, nullHandling |-> "omit"]>>,
     <<[prefix |-> <<"a", "P">>, namingConvention |-> "uppercase"]>>,
     <<[includeTypeHints |-> TRUE, nullHandling |-> "null"]>>}

\* input.outputFormat with input.formatOptions (<<>> when not supplied);
\* xml stands for a string that is no OutputFormat
ServiceFormats ==
    {<<"docker-compose", <<>>>>,
     <<"docker-compose", <<[dockerCompose |-> [useArrayFormat |-> FALSE, indentLevel |-> 4]]>>>>,
     <<"env-file", <<>>>>,
     <<"env-file", <<[envFile |-> [includeComments |-> FALSE, quoteValues |-> FALSE]]>>>>,
     <<"env-file", <<[envFile |-> [includeComments |-> TRUE, quoteValues |-> FALSE]]>>>>,
     <<"plain-text", <<>>>>,
     <<"plain-text", <<[plainText |-> [separator |-> <<":", " ">>, includeExport |-> TRUE]]>>>>,
     <<"xml", <<>>>>}

\* the argument of the call
ServiceInput(json, format, conversion, formatting) ==
    LET required == [jsonInput |-> json, outputFormat |-> format]
        withConversion == IF conversion = <<>> THEN required
                          ELSE Spread(required, [conversionOptions |-> conversion[1]])
    IN IF formatting = <<>> THEN withConversion
       ELSE Spread(withConversion, [formatOptions |-> formatting[1]])

InitService ==
    /\ pc = "start"
    /\ heap = InitialObjects
    /\ calls = 0
    /\ rawInput \in ServiceRawInputs
    /\ steps = <<>>
    /\ validation = <<>>
    /\ outputFormat = "docker-compose"
    /\ formatOptions = <<>>
    /\ serviceResult = <<>>
    /\ ConverterIdle
    /\ FormatterIdle

ConvertAppsettings ==
    /\ pc = "start"
    /\ \E conversion \in ServiceConversionOptions, format \in ServiceFormats :
        \E checked \in validateJson(rawInput) :
            \E run \in {ServiceRun(ServiceInput(rawInput, format[1], conversion, format[2]),
                                   checked)} :
               /\ partial' = conversion
               /\ outputFormat' = format[1]
               /\ formatOptions' = format[2]
               /\ validation' = checked
               /\ steps' = run.steps
               /\ warnings' = run.warnings
               /\ IF checked.isValid
                  THEN /\ options' = run.conversionOptions
                       /\ environmentVariables' = run.environmentVariables
                  ELSE UNCHANGED <<options, environmentVariables>>
               /\ serviceResult' = run.returned
    /\ pc' = "returned"
    /\ UNCHANGED <<rawInput, jsonInput, key, sanitized, formatterVars, callVars>>

NextService == ConvertAppsettings

SpecService == InitService /\ [][NextService]_vars

(***************************************************************************)
(* The conversion service: what a call returns.                            *)
(***************************************************************************)
\* the fields of a result that only a successful call has
SuccessFields == {"output", "environmentVariables", "stats"}

\* C18: for every raw input that validateJson rejects, the service returns
\* success = false with an error of type VALIDATION_FAILED that carries the
\* validator's message, line and column, an empty warnings list, and no
\* output, environmentVariables or stats; the only step it runs is
\* validateJson, so no inspector or flattening warning is collected and no
\* record is produced.
C18_ValidationFailure ==
    (pc = "returned" /\ ~validation.isValid) =>
        /\ validation \in validateJson(rawInput)
        /\ serviceResult.success = FALSE
        /\ serviceResult.error = [type |-> "VALIDATION_FAILED",
                                  message |-> validation.error,
                                  lineNumber |-> validation.lineNumber,
                                  columnNumber |-> validation.columnNumber]
        /\ serviceResult.warnings = <<>>
        /\ DOMAIN serviceResult \cap SuccessFields = {}
        /\ steps = <<"validateJson">>
        /\ warnings = <<>>
        /\ environmentVariables = <<>>

\* a text with a syntax error on its third line was rejected, and the call
\* returned the validator's message and position
C18_Witness ==
    /\ pc = "returned"
    /\ rawInput = <<"{", "\n", " ", "\"", "a", "\"", ":", " ", "1", ",", "\n", " ", "\"", "b", "\"", ":", " ", "]", "\n", "}">>
    /\ ~validation.isValid
    /\ validation.lineNumber = 3
    /\ validation.columnNumber > 1
    /\ serviceResult.error.type = "VALIDATION_FAILED"
    /\ serviceResult.error.lineNumber = 3
    /\ serviceResult.error.message = validation.error

\* the selectors that formatOutput has a case for
RecognizedFormats == {"docker-compose", "env-file", "plain-text"}

\* the format options of the call in progress: the defaults overridden by
\* what the caller supplied
MergedFormatOptions ==
    Spread(DEFAULT_FORMAT_OPTIONS, IF formatOptions = <<>> THEN <<>> ELSE formatOptions[1])

\* C19: when the requested output format is none of docker-compose, env-file
\* and plain-text (and the input is a valid document), formatOutput throws
\* "Unsupported output format: <format>", createFormattedResult turns that
\* into success = false with that message, and the service returns
\* success = false with an error of type FORMATTING_FAILED, no output, and as
\* warnings every inspector warning followed by every flattening warning.
C19_UnsupportedFormat ==
    (pc = "returned" /\ validation.isValid /\ outputFormat \notin RecognizedFormats) =>
        LET inspector == parseAppSettings(validation.data).warnings
            flattening == convertToEnvironmentVariables(validation.data, options).warnings
            thrown == formatOutput(environmentVariables, outputFormat, MergedFormatOptions)
            formatted == createFormattedResult(environmentVariables, outputFormat,
                                               MergedFormatOptions, warnings)
        IN /\ thrown = [threw |-> TRUE,
                        message |-> "Unsupported output format: " \o outputFormat]
           /\ formatted.success = FALSE
           /\ formatted.error = thrown.message
           /\ serviceResult.success = FALSE
           /\ serviceResult.error = [type |-> "FORMATTING_FAILED", message |-> thrown.message]
           /\ DOMAIN serviceResult \cap SuccessFields = {}
           /\ serviceResult.warnings = inspector \o flattening

\* a valid document with inspector warnings, flattening warnings and a key
\* that is no valid variable name was converted for the format xml
C19_Witness ==
    /\ pc = "returned"
    /\ validation.isValid
    /\ outputFormat = "xml"
    /\ parseAppSettings(validation.data).warnings # <<>>
    /\ convertToEnvironmentVariables(validation.data, options).warnings # <<>>
    /\ validateEnvironmentVariableNames(environmentVariables) # <<>>
    /\ serviceResult.success = FALSE
    /\ serviceResult.error.message = "Unsupported output format: xml"
    /\ Len(serviceResult.warnings) >= 2

\* C20: a format failure happens only for an unrecognized selector: for each
\* of the three recognized formats and every record list flattened from a
\* valid document, formatOutput returns a string without throwing, and the
\* service does not report FORMATTING_FAILED.
C20_RecognizedFormatsRender ==
    (pc = "returned" /\ validation.isValid /\ outputFormat \in RecognizedFormats) =>
        /\ ~formatOutput(environmentVariables, outputFormat, MergedFormatOptions).threw
        /\ serviceResult.success
        /\ "error" \notin DOMAIN serviceResult

\* the pieces of a sequence between the occurrences of the element sep
SplitAt(seq, sep) ==
    LET at == {i \in DOMAIN seq : seq[i] = sep}
        nth(n) == IF n = 0 THEN 0
                  ELSE IF n > Cardinality(at) THEN Len(seq) + 1
                  ELSE CHOOSE i \in at : Cardinality({j \in at : j < i}) = n - 1
    IN [n \in 1..(Cardinality(at) + 1) |-> SubSeq(seq, nth(n - 1) + 1, nth(n) - 1)]

\* a .env text as its reader sees it: the blocks of lines between empty
\* lines, without the comment lines and without the blocks that hold nothing
\* but comments
IsRecordLine(line) == line # <<>> /\ line[1] # "#"
IsRecordBlock(block) == block # <<>>
RecordBlocks(text) ==
    LET blocks == SplitAt(SplitAt(text, "\n"), <<>>)
    IN SelectSeq([i \in DOMAIN blocks |-> SelectSeq(blocks[i], IsRecordLine)], IsRecordBlock)

\* the section of a key built with the separator sep: <<name>> for the part
\* before the first occurrence of sep, <<>> (the implicit root group) when
\* sep does not occur
SectionOf(k, sep) ==
    LET at == {i \in 1..(Len(k) - Len(sep) + 1) : SubSeq(k, i, i + Len(sep) - 1) = sep}
    IN IF at = {} THEN <<>>
       ELSE <<SubSeq(k, 1, (CHOOSE i \in at : \A j \in at : i <= j) - 1)>>

\* the records grouped by section: groups in the order their section is
\* first seen, records inside a group in their input order
GroupedBySection(records, sep) ==
    LET section(i) == SectionOf(records[i].key, sep)
        firsts == {i \in DOMAIN records : \A j \in 1..(i - 1) : section(j) # section(i)}
        nth(n) == CHOOSE i \in firsts : Cardinality({j \in firsts : j < i}) = n - 1
        InGroup(n) == {i \in DOMAIN records : section(i) = section(nth(n))}
        member(n, m) == CHOOSE i \in InGroup(n) : Cardinality({j \in InGroup(n) : j < i}) = m - 1
    IN [n \in 1..Cardinality(firsts) |->
            [m \in 1..Cardinality(InGroup(n)) |-> records[member(n, m)]]]

\* C14: the .env renderer emits every record exactly once, grouped by
\* top-level section: the section of a key is the part before the first
\* occurrence of the key separator it was built with, the keys without the
\* separator (and only those) form the implicit root group, the groups are in
\* the order their section is first seen, and the records of a group keep
\* their input order.
C14_EnvGrouping ==
    (pc = "returned" /\ validation.isValid /\ outputFormat = "env-file") =>
        /\ serviceResult.success
        /\ LET groups == GroupedBySection(environmentVariables, options.keySeparator)
               quote == MergedFormatOptions.envFile.quoteValues
           IN RecordBlocks(serviceResult.output) =
                [n \in DOMAIN groups |->
                    [m \in DOMAIN groups[n] |->
                        groups[n][m].key \o <<"=">>
                            \o escapeEnvValue(groups[n][m].value, quote)]]

(***************************************************************************)
(* The flattener: leaves, provenance and paths.                            *)
(***************************************************************************)
\* the primitive leaves (string, number, boolean, null) of a value
RECURSIVE CountLeaves(_)
CountLeaves(v) ==
    CASE v.type = "array" -> SumOver(v.items, CountLeaves)
      [] v.type = "object" -> SumOver(v.members, LAMBDA m : CountLeaves(m.value))
      [] OTHER -> 1

\* the warnings sanitizeKey gives for the keys of every object of a value
RECURSIVE CountKeyWarnings(_)
CountKeyWarnings(v) ==
    CASE v.type = "array" -> SumOver(v.items, CountKeyWarnings)
      [] v.type = "object" ->
            SumOver(v.members,
                    LAMBDA m : Len(sanitizeKey(m.key, <<>>).warnings) + CountKeyWarnings(m.value))
      [] OTHER -> 0

\* C29: with includeArrayIndices = true and nullHandling other than omit the
\* number of records is the number of primitive leaves (string, number,
\* boolean, null) of the document; empty objects and empty arrays give no
\* record, and the only warnings are those of the keys and one for each empty
\* array, so an empty object gives no warning.
C29_LeafCount ==
    (Converted /\ options.includeArrayIndices /\ options.nullHandling # "omit") =>
        /\ Len(environmentVariables) = CountLeaves(Data)
        /\ Len(warnings) = CountKeyWarnings(Data) + CountEmptyArrays(Data)

\* a document with an empty object next to a leaf was flattened: one record,
\* and no warning but those of the keys
C29_Witness ==
    /\ Converted
    /\ options.includeArrayIndices
    /\ options.nullHandling = "empty"
    /\ Len(Data.members) = 2
    /\ \E i \in DOMAIN Data.members :
            Data.members[i].key = <<"b">> /\ Data.members[i].value = JObj(<<>>)
    /\ \E i \in DOMAIN Data.members : Data.members[i].value.type = "null"
    /\ Len(environmentVariables) = 1
    /\ Len(warnings) = CountKeyWarnings(Data)

\* The leaves of the document that give a record, in document order, each
\* with its source location: the keys and indices that lead to it written as
\* a path (keys joined by '.', an index as [i]), whether it sits directly in
\* an array, and at which index.  A collapsed array stands for its items.
RECURSIVE Sources(_, _, _, _, _)
Sources(v, path, inArray, index, opts) ==
    CASE v.type = "object" ->
            Concat([i \in DOMAIN v.members |->
                Sources(v.members[i].value,
                        IF path = <<>> THEN v.members[i].key
                        ELSE path \o <<".">> \o v.members[i].key,
                        FALSE, 0, opts)])
      [] v.type = "array" ->
            IF v.items = <<>> THEN <<>>
            ELSE IF ~opts.includeArrayIndices
            THEN <<[type |-> "array", path |-> path, inArray |-> inArray, index |-> index]>>
            ELSE Concat([i \in DOMAIN v.items |->
                    Sources(v.items[i], path \o <<"[">> \o NatToString(i - 1) \o <<"]">>,
                            TRUE, i - 1, opts)])
      [] v.type = "null" ->
            IF inArray \/ opts.nullHandling # "omit"
            THEN <<[type |-> "null", path |-> path, inArray |-> inArray, index |-> index]>>
            ELSE <<>>
      [] OTHER -> <<[type |-> v.type, path |-> path, inArray |-> inArray, index |-> index]>>

RecordSources == Sources(Data, <<>>, FALSE, 0, options)

\* C23: every record carries its provenance: originalType is the JSON type of
\* the source leaf (string, number, boolean or null, and array only for a
\* collapsed array), isArrayElement is true exactly for the records of a
\* primitive or null item that sits directly in an array, and arrayIndex is
\* present, and is that item's index, exactly when isArrayElement is true.
C23_Provenance ==
    Converted =>
        LET sources == RecordSources
        IN /\ Len(environmentVariables) = Len(sources)
           /\ \A i \in DOMAIN environmentVariables :
                LET r == environmentVariables[i]
                IN /\ r.originalType = sources[i].type
                   /\ r.isArrayElement = sources[i].inArray
                   /\ ("arrayIndex" \in DOMAIN r) = r.isArrayElement
                   /\ r.isArrayElement => r.arrayIndex = sources[i].index

\* C24: every record's originalPath is the path of its source location: the
\* object keys joined by '.', each array index written as [i], whatever the
\* key separator is and whatever underscores or dots the keys hold.
C24_OriginalPath ==
    Converted =>
        LET sources == RecordSources
        IN /\ Len(environmentVariables) = Len(sources)
           /\ \A i \in DOMAIN environmentVariables :
                environmentVariables[i].originalPath = sources[i].path

(***************************************************************************)
(* validateJson: the position of a syntax error.                           *)
(***************************************************************************)
\* the messages validateJson returns for the errors whose message names a
\* character offset ("at position N")
OffsetMessages ==
    {"Invalid JSON syntax - unexpected character",
     "Unexpected string value - check for missing commas or quotes",
     "Unexpected number - check for missing commas",
     "Missing property name or closing bracket",
     "Expected ',' or '}' after property value in JSON at position (line column)"}

\* the text of the raw input before the character the parser stopped at
BeforeError ==
    LET leading == Len(rawInput) - Len(trimStart(rawInput))
        at == ParseJsonText(trim(rawInput)).at
    IN SubSeq(rawInput, 1, leading + at - 1)

\* C25: when the parser reports a character offset for a syntax error,
\* lineNumber is one plus the number of line feeds before the error position
\* in the raw input, and columnNumber is the 1-based distance from the last
\* line feed before it, also when the raw input begins with white space or
\* blank lines.
C25_ErrorPosition ==
    (pc = "parsed" /\ ~validation.isValid /\ validation.error \in OffsetMessages) =>
        /\ validation.lineNumber = CountLineFeeds(BeforeError) + 1
        /\ validation.columnNumber = LastLineLength(BeforeError) + 1

(***************************************************************************)
(* The service: statistics.                                                *)
(***************************************************************************)
\* the arrays of a value, itself included
RECURSIVE CountArrays(_)
CountArrays(v) ==
    CASE v.type = "array" -> 1 + SumOver(v.items, CountArrays)
      [] v.type = "object" -> SumOver(v.members, LAMBDA m : CountArrays(m.value))
      [] OTHER -> 0

\* C28: on every successful conversion stats.totalVariables is the number of
\* records of the returned environmentVariables list, and stats.arrayCount is
\* the number of arrays of the document.
C28_Stats ==
    (pc = "returned" /\ serviceResult.success) =>
        /\ serviceResult.stats.totalVariables = Len(serviceResult.environmentVariables)
        /\ serviceResult.stats.arrayCount = CountArrays(validation.data)

(***************************************************************************)
(* The service: includeTypeHints.                                          *)
(***************************************************************************)
\* the conversion options of the call with includeTypeHints set to hint
WithTypeHints(hint) ==
    <<Spread(IF partial = <<>> THEN <<>> ELSE partial[1], [includeTypeHints |-> hint])>>

\* what the call returns when only includeTypeHints is changed to hint
ReturnedWithTypeHints(hint) ==
    ServiceRun(ServiceInput(rawInput, outputFormat, WithTypeHints(hint), formatOptions),
               validation).returned

WarningsWith(ws, text) == {i \in DOMAIN ws : ws[i].text = text}

\* ^[a-zA-Z_][a-zA-Z0-9_]*$
MatchesIdentifier(k) ==
    /\ k # <<>>
    /\ IsIdentStart(k[1])
    /\ \A i \in DOMAIN k : IsIdentChar(k[i])

\* the records whose key is the key of an earlier record
RepeatedKeys(envVars) ==
    {i \in DOMAIN envVars : \E j \in 1..(i - 1) : envVars[j].key = envVars[i].key}

\* the warnings after the first n of a list are one for every repeated
\* occurrence of a key, one for every key that is no identifier, one for
\* every key of more than 255 characters and one for every value of more than
\* 32767
AreNameWarnings(ws, envVars) ==
    /\ Cardinality(WarningsWith(ws, "Duplicate environment variable key: "))
         = Cardinality(RepeatedKeys(envVars))
    /\ Cardinality(WarningsWith(ws, "Invalid environment variable name: "))
         = Cardinality({i \in DOMAIN envVars : ~MatchesIdentifier(envVars[i].key)})
    /\ Cardinality(WarningsWith(ws, "Environment variable name too long: "))
         = Cardinality({i \in DOMAIN envVars : Len(envVars[i].key) > 255})
    /\ Cardinality(WarningsWith(ws, "Environment variable value too long for key: "))
         = Cardinality({i \in DOMAIN envVars : Len(envVars[i].value) > 32767})
    /\ \A i \in DOMAIN ws :
            /\ ws[i].text \in {"Duplicate environment variable key: ",
                               "Invalid environment variable name: ",
                               "Environment variable name too long: ",
                               "Environment variable value too long for key: "}
            /\ \E j \in DOMAIN envVars : ws[i].about = envVars[j].key

\* what createFormattedResult returns for the records, the format and the
\* warnings of the call
FormattedOfCall ==
    createFormattedResult(environmentVariables, outputFormat, MergedFormatOptions, warnings)

\* C21: the validation of names and duplicates is advisory only: for every
\* record list and every recognized format createFormattedResult returns
\* success = true with the formatted output and the same record list, and its
\* warnings are the existing warnings followed by one warning per repeated
\* occurrence of a key, one per key that is no identifier, one per key longer
\* than 255 characters and one per value longer than 32767 characters.
C21_AdvisoryValidation ==
    (pc = "returned" /\ validation.isValid /\ outputFormat \in RecognizedFormats) =>
        /\ FormattedOfCall.success
        /\ FormattedOfCall.environmentVariables = environmentVariables
        /\ FormattedOfCall.formattedOutput = serviceResult.output
        /\ Len(FormattedOfCall.warnings) >= Len(warnings)
        /\ SubSeq(FormattedOfCall.warnings, 1, Len(warnings)) = warnings
        /\ AreNameWarnings(SubSeq(FormattedOfCall.warnings, Len(warnings) + 1,
                                  Len(FormattedOfCall.warnings)),
                           environmentVariables)

(***************************************************************************)
(* formatDockerCompose: the lines of the output.                           *)
(***************************************************************************)
\* s begins with p
StartsWith(s, p) == Len(s) >= Len(p) /\ SubSeq(s, 1, Len(p)) = p

\* the beginning of the line of a record: the indent, then '- KEY=' in the
\* array style or 'KEY: ' in the map style
ComposeLineStart(envVar, opts) ==
    Spaces(opts.indentLevel)
        \o (IF opts.useArrayFormat THEN <<"-", " ">> \o envVar.key \o <<"=">>
            ELSE envVar.key \o <<":", " ">>)

\* C27: the output of the Compose renderer is the line 'environment:'
\* followed by exactly one line per record, in the order of the records, each
\* line being the indent of indentLevel spaces and then '- KEY=value' or
\* 'KEY: value'; also for values that contain line feeds.
C27_ComposeLines ==
    (pc = "returned" /\ validation.isValid /\ outputFormat = "docker-compose") =>
        LET lines == SplitAt(serviceResult.output, "\n")
        IN /\ Len(lines) = 1 + Len(environmentVariables)
           /\ lines[1] = <<"e", "n", "v", "i", "r", "o", "n", "m", "e", "n", "t", ":">>
           /\ \A i \in DOMAIN environmentVariables :
                StartsWith(lines[i + 1],
                           ComposeLineStart(environmentVariables[i],
                                            MergedFormatOptions.dockerCompose))

(***************************************************************************)
(* parseAppSettings: deep nesting.                                         *)
(***************************************************************************)
\* the levels below a value: an object or an array puts its members and
\* items one level below itself
RECURSIVE LevelsBelow(_)
LevelsBelow(v) ==
    LET below == IF v.type = "array" THEN {LevelsBelow(v.items[i]) : i \in DOMAIN v.items}
                 ELSE IF v.type = "object"
                 THEN {LevelsBelow(v.members[i].value) : i \in DOMAIN v.members}
                 ELSE {}
    IN IF below = {} THEN 0
       ELSE 1 + (CHOOSE d \in below : \A e \in below : e <= d)

DeepNestingWarned ==
    \E i \in DOMAIN warnings :
        warnings[i].text = "Very deep nesting detected - consider flattening structure"

\* C26: parseAppSettings warns of very deep nesting if and only if the
\* document has a value more than 10 levels below the root, each object or
\* array step being one level and dots in keys adding none; the result stays
\* valid and has no errors.
C26_DeepNesting ==
    (pc = "returned" /\ validation.isValid) =>
        /\ DeepNestingWarned <=> LevelsBelow(validation.data) > 10
        /\ parseAppSettings(validation.data).isValid
        /\ parseAppSettings(validation.data).errors = <<>>
        /\ Len(steps) >= 3

(***************************************************************************)
(* Several calls of the conversion service, one after the other, by a      *)
(* caller that keeps its options objects.                                  *)
(***************************************************************************)
\* the calls of a run
MaxCalls == 3

\* the raw inputs of the calls: documents that convert, a document whose
\* env-file rendering fails, texts that validateJson rejects
CallTexts ==
    {<<"{", "\"", "b", "\"", ":", "[", "\"", "T", "x", "\"", ",", "-", "1", "2", ",", "n", "u", "l", "l", "]", "}">>,
     <<"{", "\"", "s", "\"", ":", "{", "\"", "k", "\"", ":", "\"", "\\", "n", "\"", "}", "}">>,
     <<"{", "\"", "c", "o", "n", "s", "t", "r", "u", "c", "t", "o", "r", "\"", ":", "{", "\"", "a", "\"", ":", "1", "}", "}">>,
     <<"{", "\"", "a", "\"", ":", " ", "1", ",", "}">>,
     <<"[", "1", "]">>,
     <<>>}

CallFormats == {"docker-compose", "env-file", "plain-text", "xml"}

\* validateConversionOptions assigning to the object it is given
validateConversionOptionsOn_InPlace(objects, argument) ==
    [objects EXCEPT ![argument] = validateConversionOptions(objects[argument]),
                    !["validated"] = validateConversionOptions(objects[argument])]

\* The objects after validateConversionOptions(objects[argument]): validated
\* is a new object ({ ...defaults, ...options }), and the assignments to
\* keySeparator and prefix are assignments to it.
validateConversionOptionsOn(objects, argument) ==
    [objects EXCEPT !["validated"] = validateConversionOptions(objects[argument])]

\* input.conversionOptions || DEFAULT_CONVERSION_OPTIONS
ConversionArgument(withConversion) ==
    IF withConversion THEN "input.conversionOptions" ELSE "DEFAULT_CONVERSION_OPTIONS"

\* The argument of a call as the service reads it: the conversion options
\* are the caller's object or the shared default, the format options are the
\* shared default with the caller's object spread over it.
CallInput(objects, text, format, withConversion, withFormat) ==
    ServiceInput(text, format,
                 <<objects[ConversionArgument(withConversion)]>>,
                 <<Spread(objects["DEFAULT_FORMAT_OPTIONS"],
                          IF withFormat THEN objects["input.formatOptions"] ELSE <<>>)>>)

InitCalls ==
    /\ pc = "start"
    /\ heap = InitialObjects
    /\ calls = 0
    /\ steps = <<>>
    /\ rawInput = <<>>
    /\ validation = <<>>
    /\ outputFormat = "docker-compose"
    /\ formatOptions = <<>>
    /\ serviceResult = <<>>
    /\ ConverterIdle
    /\ FormatterIdle

\* one more call: partial and formatOptions tell which of its objects the
\* caller passed
CallAgain ==
    /\ calls < MaxCalls
    /\ \E text \in CallTexts, format \in CallFormats,
          withConversion \in BOOLEAN, withFormat \in BOOLEAN :
        \E checked \in validateJson(text) :
            \E run \in {ServiceRun(CallInput(heap, text, format, withConversion, withFormat),
                                   checked)} :
               /\ rawInput' = text
               /\ outputFormat' = format
               /\ partial' = IF withConversion THEN <<heap["input.conversionOptions"]>>
                             ELSE <<>>
               /\ formatOptions' = IF withFormat THEN <<heap["input.formatOptions"]>>
                                   ELSE <<>>
               /\ validation' = checked
               /\ steps' = run.steps
               /\ warnings' = run.warnings
               /\ IF checked.isValid
                  THEN /\ options' = run.conversionOptions
                       /\ environmentVariables' = run.environmentVariables
                       /\ heap' = validateConversionOptionsOn(heap,
                                        ConversionArgument(withConversion))
                  ELSE UNCHANGED <<options, environmentVariables, heap>>
               /\ serviceResult' = run.returned
    /\ calls' = calls + 1
    /\ pc' = "returned"
    /\ UNCHANGED <<jsonInput, key, sanitized, formatterVars>>

NextCalls == CallAgain

SpecCalls == InitCalls /\ [][NextCalls]_vars

\* the argument of the last call, made of the objects as they were before
\* any call
FirstCallInput ==
    ServiceInput(rawInput, outputFormat,
                 IF partial = <<>> THEN <<>> ELSE <<CallerConversionOptions>>,
                 IF formatOptions = <<>> THEN <<>> ELSE <<CallerFormatOptions>>)

\* C22: after any sequence of calls, successes and failures mixed, the
\* shared DEFAULT_CONVERSION_OPTIONS and DEFAULT_FORMAT_OPTIONS and the
\* caller's options objects are unchanged, and the last call has returned
\* what it returns when it is the first call.
C22_FrameEffect ==
    calls > 0 =>
        /\ \A n \in KeptObjects : heap[n] = InitialObjects[n]
        /\ serviceResult = ServiceRun(FirstCallInput, validation).returned

\* a third call that passes both objects and succeeds, after a call that
\* made validateConversionOptions assign the separator and the prefix
C22_Witness ==
    /\ calls = 3
    /\ partial # <<>>
    /\ formatOptions # <<>>
    /\ serviceResult.success
    /\ heap["validated"].keySeparator = <<"_", "_">>
    /\ heap["validated"].prefix = <<"_", "1", "_">>

====
